---- MODULE Spec2Model ----
(***************************************************************************)
(* Provisioning engine of clawdiscord.                                     *)
(*   - ServerBuilder.build  (packages/cli/src/core/builder.ts) on top of   *)
(*     DiscordClient.request (packages/cli/src/core/discord.ts)            *)
(*   - SetupService.execute (packages/bot/src/services/setup.ts) on top of *)
(*     SetupService.apiPost                                                *)
(*   - the activeSetups registry of the bot (packages/bot/src/index.ts)    *)
(* A remote call is modelled as two steps: the attempt is put in flight,   *)
(* then the remote system answers it with one of Responses.                *)
(***************************************************************************)
EXTENDS Integers, Sequences, FiniteSets, TLC

\* ------------------------------------------------------------------ bounds
MaxRoles == 2
MaxCats == 2
MaxChans == 1
MaxInv == 2
MaxLate == 2
MaxRuns == 2

\* longest list of permission names given to resolvePermissions
MaxPerms == 3

\* ------------------------------------------------------- program constants
maxRetries == 3
StaffPosition == 12

\* --------------------------------------------------------------- templates
SeqsUpTo(S, n) == UNION {[1..k -> S] : k \in 0..n}

RoleSet ==
  { [name |-> "Member", position |-> 0, permissions |-> <<>>],
    [name |-> "Mod", position |-> 0, permissions |-> <<"MANAGE_GUILD">>],
    [name |-> "Admin", position |-> 12, permissions |-> <<"ADMINISTRATOR">>] }

\* an optional value: <<>> when the field is undefined, <<v>> when it holds v
Undefined == <<>>

NoRule ==
  [everyone |-> [send_messages |-> Undefined, view_channel |-> Undefined],
   staff_only |-> FALSE, role_locked |-> ""]

ChannelSet ==
  { [name |-> "welcome", embed |-> TRUE, permissions |-> [NoRule EXCEPT !.role_locked = "Admin"]],
    [name |-> "mod-chat", embed |-> FALSE, permissions |-> [NoRule EXCEPT !.staff_only = TRUE]] }

CatNames == {"General", "Staff"}

\* a staff category holds the staff-only channels, any other category the public ones
CategorySet ==
  { c \in [name : CatNames, channels : SeqsUpTo(ChannelSet, MaxChans)] :
      \A k \in 1..Len(c.channels) :
         c.channels[k].permissions.staff_only <=> (c.name = "Staff") }
    \ {[name |-> "Staff", channels |-> <<>>]}

\* role lists without repeated roles
RoleLists ==
  { rs \in SeqsUpTo(RoleSet, MaxRoles) :
      \A m, n \in 1..Len(rs) : rs[m] = rs[n] => m = n }

Templates ==
  [roles : RoleLists,
   categories : SeqsUpTo(CategorySet, MaxCats),
   settings : BOOLEAN]

OptionSet == [includeStaff : BOOLEAN, includeEngagement : {TRUE}]

\* --------------------------------------------------------- remote answers
OK == [status |-> 200, message |-> "OK"]

ErrResponses ==
  { [status |-> 429, message |-> "You are being rate limited."],
    [status |-> 500, message |-> "Internal Server Error"],
    [status |-> 401, message |-> "401: Unauthorized"],
    [status |-> 403, message |-> "Missing Access"],
    [status |-> 403, message |-> "Missing Permissions"],
    [status |-> 400, message |-> "Invalid Form Body"] }

Responses == {OK} \cup ErrResponses

\* permission masks the bot member record can carry (as sets of flag names)
MemberPerms ==
  { {}, {"MANAGE_CHANNELS"},
    {"MANAGE_CHANNELS", "MANAGE_ROLES", "MANAGE_GUILD"},
    {"ADMINISTRATOR"} }

VARIABLES
  engine,              \* "build" (ServerBuilder) or "execute" (SetupService) or "none"
  template,            \* the loaded ServerTemplate
  options,             \* BuildOptions
  pc,                  \* phase of the run
  i,                   \* loop index of the current phase (role, category, embed)
  j,                   \* loop index of the channels of category i
  position,            \* createCategories' position / execute's catIndex
  catId,               \* identifier of the category whose channels are being created
  roleMap,             \* role name -> remote identifier
  result,              \* counters of the BuildResult / SetupResult
  errors,              \* result.errors
  channelsWithEmbeds,  \* queued embeds
  requestCount,        \* smartDelay / apiPost request counter
  retries,             \* retries already made for the logical call in progress
  inflight,            \* attempts issued and not yet answered
  remote,              \* resources that exist on the remote system
  pfErrors,            \* errors collected by preflight
  phaseReached,        \* highest phase rank of any attempt issued so far in the run
  activeSetups,        \* the bot's set of guild ids with a setup in progress
  inv,                 \* the bot's command invocations
  paced,               \* smartDelay has run since the last mutating call was issued
  overwrites,          \* permission_overwrites of the latest channel-creation call
  timer,               \* delay (ms) handed to the pending setTimeout
  elapsed,             \* ms elapsed since that setTimeout was set
  answer,              \* the latest answer the call under observation has received
  attempts,            \* attempts issued for the call under observation
  raised,              \* the error the call under observation has thrown
  returned,            \* what the finished run has returned to its caller
  runs,                \* runs completed against the target before the current one
  before,              \* what those earlier runs have left on the target
  progress,            \* the arguments of the latest call of execute's progress callback
  validation,          \* validate.js: its error and warning counters and its exit status
  loaded,              \* what the bot's loadTemplate has returned for the document
  permissions,         \* resolvePermissions: its argument perms, the list of permission names
  acc                  \* resolvePermissions: the accumulator of its reduce

clientVars == <<timer, elapsed, answer, attempts, raised>>
runVars == <<returned, runs, before, progress>>
checkVars == <<validation, loaded, permissions, acc>>
pipeVars == <<engine, template, options, pc, i, j, position, catId, roleMap, result,
              errors, channelsWithEmbeds, requestCount, retries, inflight, remote, pfErrors,
              phaseReached, paced, overwrites, clientVars, runVars, checkVars>>
regVars == <<activeSetups, inv>>
vars == <<engine, template, options, pc, i, j, position, catId, roleMap, result,
          errors, channelsWithEmbeds, requestCount, retries, inflight, remote, pfErrors,
          phaseReached, activeSetups, inv, paced, overwrites, timer, elapsed, answer,
          attempts, raised, returned, runs, before, progress, validation, loaded,
          permissions, acc>>

\* ---------------------------------------------------------------- helpers
includes(list, x) == \E k \in 1..Len(list) : list[k] = x

\* Staff roles = position >= 12 OR has ADMINISTRATOR/MANAGE_GUILD
isStaffRole(r) ==
  r.position >= StaffPosition
    \/ includes(r.permissions, "ADMINISTRATOR")
    \/ includes(r.permissions, "MANAGE_GUILD")

\* roles.filter(staff).map(r => r.name): the names in template order
RECURSIVE getStaffRoleNames(_)
getStaffRoleNames(roles) ==
  IF roles = <<>> THEN <<>>
  ELSE (IF isStaffRole(Head(roles)) THEN <<Head(roles).name>> ELSE <<>>)
         \o getStaffRoleNames(Tail(roles))

isStaffCategory_never(category) == FALSE

\* name.toLowerCase() includes 'staff', 'admin' or 'mod-only': of CatNames, "Staff"
isStaffCategory(category) == category.name = "Staff"

\* name.toLowerCase() includes 'engagement', 'fun' or 'activity': none of CatNames
isEngagementCategory(category) == category.name \in {"Engagement", "Fun", "Activity"}

\* comparator of the role sort
compareFn_desc(a, b) == b.position - a.position

compareFn(a, b) == a.position - b.position

\* stable insertion of document index x into the sorted index list s
RECURSIVE insertSorted(_, _, _)
insertSorted(roles, s, x) ==
  IF s = <<>> THEN <<x>>
  ELSE IF compareFn(roles[Head(s)], roles[x]) <= 0
       THEN <<Head(s)>> \o insertSorted(roles, Tail(s), x)
       ELSE <<x>> \o s

RECURSIVE sortIdx(_, _)
sortIdx(roles, n) ==
  IF n = 0 THEN <<>> ELSE insertSorted(roles, sortIdx(roles, n - 1), n)

\* [...roles].sort((a, b) => a.position - b.position), as document indices
sortedRoles(roles) == sortIdx(roles, Len(roles))

\* identifiers the remote system hands out
RoleId(k) == [t |-> "role", a |-> k, b |-> 0]
CategoryId(c) == [t |-> "category", a |-> c, b |-> 0]
ChannelId(c, k) == [t |-> "channel", a |-> c, b |-> k]
MessageId(c, k) == [t |-> "message", a |-> c, b |-> k]
SettingsId == [t |-> "settings", a |-> 0, b |-> 0]

Attempt(kind, a, b) == [kind |-> kind, a |-> a, b |-> b]

MutatingKinds == {"role", "category", "channel", "embed", "settings"}

ZeroResult == [rolesCreated |-> 0, categoriesCreated |-> 0, channelsCreated |-> 0, embedsSent |-> 0]

\* a failed category reported as a failure of a channel
ErrorEntry_perChannel(item, name) ==
  [item |-> IF item = "Category" THEN "Channel" ELSE item, name |-> name]

ErrorEntry(item, name) == [item |-> item, name |-> name]

\* ------------------------------------------------- DiscordClient.request
\* what request does with the answer to an attempt made after r retries
request_offByOne(resp, r) ==
  IF resp.status = 200 THEN [act |-> "return", status |-> 200, message |-> resp.message]
  ELSE IF resp.status = 429 /\ r <= maxRetries
       THEN [act |-> "retry", status |-> resp.status, message |-> resp.message]
  ELSE IF resp.status >= 500 /\ r <= maxRetries
       THEN [act |-> "retry", status |-> resp.status, message |-> resp.message]
  ELSE [act |-> "throw", status |-> resp.status, message |-> resp.message]

request_clientErrors(resp, r) ==
  IF resp.status = 200 THEN [act |-> "return", status |-> 200, message |-> resp.message]
  ELSE IF resp.status = 429 /\ r < maxRetries
       THEN [act |-> "retry", status |-> resp.status, message |-> resp.message]
  ELSE IF resp.status >= 400 /\ r < maxRetries
       THEN [act |-> "retry", status |-> resp.status, message |-> resp.message]
  ELSE [act |-> "throw", status |-> resp.status, message |-> resp.message]

request(resp, r) ==
  IF resp.status = 200 THEN [act |-> "return", status |-> 200, message |-> resp.message]
  ELSE IF resp.status = 429 /\ r < maxRetries
       THEN [act |-> "retry", status |-> resp.status, message |-> resp.message]
  ELSE IF resp.status >= 500 /\ r < maxRetries
       THEN [act |-> "retry", status |-> resp.status, message |-> resp.message]
  ELSE [act |-> "throw", status |-> resp.status, message |-> resp.message]

isFatalError_always(err) == TRUE

isFatalError(err) ==
  \/ err.status = 401
  \/ err.status = 403 /\ err.message = "Missing Access"

\* ------------------------------------------------------ shared run steps
NoId == [t |-> "none", a |-> 0, b |-> 0]

Rank(kind) ==
  CASE kind \in {"getGuild", "getBotMember"} -> 0
    [] kind = "role" -> 1
    [] kind \in {"category", "channel"} -> 2
    [] kind = "embed" -> 3
    [] kind = "settings" -> 4

Max(a, b) == IF a >= b THEN a ELSE b

Min(a, b) == IF a <= b THEN a ELSE b

\* every remote call is awaited: the caller is suspended until the answer
awaited == inflight = {}

\* put an attempt of a new logical call in flight
Issue(att) ==
  /\ awaited
  /\ inflight' = inflight \cup {att}
  /\ retries' = 0
  /\ phaseReached' = Max(phaseReached, Rank(att.kind))
  /\ paced' = IF att.kind \in MutatingKinds THEN FALSE ELSE paced

\* the part of smartDelay the run can observe: the counter, and that the pause was made
smartDelay ==
  /\ requestCount' = requestCount + 1
  /\ paced' = TRUE

\* no call is under observation by a clock
NoAnswer == [status |-> 0, message |-> "", retry_after |-> Undefined]

NoError == [name |-> "", status |-> 0, message |-> ""]

NoClient ==
  /\ timer = 0
  /\ elapsed = 0
  /\ answer = NoAnswer
  /\ attempts = 0
  /\ raised = NoError

\* the run is the first against its target and has not returned
\* no call of the progress callback yet
NoProgress == [phase |-> "", current |-> 0, total |-> 0]

onProgress_swapped(phase, current, total) ==
  [phase |-> phase, current |-> total, total |-> current]

\* this.onProgress(phase, current, total): the arguments of the latest call
onProgress(phase, current, total) == [phase |-> phase, current |-> current, total |-> total]

NoResources == [roles |-> 0, categories |-> 0, channels |-> 0, messages |-> 0]

FirstRun ==
  /\ returned = Undefined
  /\ runs = 0
  /\ before = NoResources
  /\ progress = NoProgress

\* no document is under validation and no permission list is being resolved
NoValidation == [errors |-> 0, warnings |-> 0, exit |-> Undefined]

NoCheck ==
  /\ validation = NoValidation
  /\ loaded = ""
  /\ permissions = <<>>
  /\ acc = {}

\* the BuildResult build returns: this.result (duration left out)
BuildResult(stats, errs) ==
  [rolesCreated |-> stats.rolesCreated, categoriesCreated |-> stats.categoriesCreated,
   channelsCreated |-> stats.channelsCreated, embedsSent |-> stats.embedsSent, errors |-> errs]

SetupResult_anyCreated(stats, errs) ==
  [success |-> Len(errs) = 0 /\ stats # ZeroResult, stats |-> stats, errors |-> errs]

SetupResult_firstError(stats, errs) ==
  [success |-> Len(errs) = 0, stats |-> stats, errors |-> IF Len(errs) = 0 THEN errs ELSE <<errs[1]>>]

\* the SetupResult execute returns (duration left out)
SetupResult(stats, errs) == [success |-> Len(errs) = 0, stats |-> stats, errors |-> errs]

roleMapSet_dropped(name, id) == roleMap

roleMapSet(name, id) == [n \in (DOMAIN roleMap) \cup {name} |-> IF n = name THEN id ELSE roleMap[n]]

\* ---------------------------------------------- permission overwrites
\* @everyone role ID = guild ID
everyoneId == [t |-> "guild", a |-> 0, b |-> 0]

\* overwrite entries; a mask is the set of the flags it ORs together, {} for an absent field
\* (the decimal string the code sends is one-to-one with that set)
deny(id, mask) == [id |-> id, type |-> 0, allow |-> {}, deny |-> mask]

allow(id, mask) == [id |-> id, type |-> 0, allow |-> mask, deny |-> {}]

\* roleMap.get(name) followed by the `if (roleId)` test: <<>> when there is no entry
roleMapGet_everyone(name) == IF name \in DOMAIN roleMap THEN <<roleMap[name]>> ELSE <<everyoneId>>

roleMapGet(name) == IF name \in DOMAIN roleMap THEN <<roleMap[name]>> ELSE <<>>

\* the loop over the staff role names: one allow entry per name that resolves
RECURSIVE staffAllows(_, _)
staffAllows(names, mask) ==
  IF names = <<>> THEN <<>>
  ELSE (IF roleMapGet(Head(names)) # <<>>
        THEN <<allow(roleMapGet(Head(names))[1], mask)>> ELSE <<>>)
         \o staffAllows(Tail(names), mask)

\* everyone.send_messages === false, everyone.view_channel === false
everyoneRules(channel) ==
  (IF channel.permissions.everyone.send_messages = <<FALSE>>
   THEN <<deny(everyoneId, {"SEND_MESSAGES"})>> ELSE <<>>)
    \o (IF channel.permissions.everyone.view_channel = <<FALSE>>
        THEN <<deny(everyoneId, {"VIEW_CHANNEL"})>> ELSE <<>>)

staffOnly_viewOnly(channel, roles) ==
  IF channel.permissions.staff_only
  THEN <<deny(everyoneId, {"VIEW_CHANNEL"})>>
         \o staffAllows(getStaffRoleNames(roles), {"VIEW_CHANNEL"})
  ELSE <<>>

\* if (channel.permissions?.staff_only)
staffOnly(channel, roles) ==
  IF channel.permissions.staff_only
  THEN <<deny(everyoneId, {"VIEW_CHANNEL"})>>
         \o staffAllows(getStaffRoleNames(roles), {"VIEW_CHANNEL", "SEND_MESSAGES"})
  ELSE <<>>

roleLocked_staffFirst(channel, roles) ==
  IF channel.permissions.role_locked # ""
  THEN <<deny(everyoneId, {"VIEW_CHANNEL"})>>
         \o staffAllows(getStaffRoleNames(roles), {"VIEW_CHANNEL"})
         \o (IF roleMapGet(channel.permissions.role_locked) # <<>>
             THEN <<allow(roleMapGet(channel.permissions.role_locked)[1], {"VIEW_CHANNEL"})>>
             ELSE <<>>)
  ELSE <<>>

roleLocked_deduplicated(channel, roles) ==
  IF channel.permissions.role_locked # ""
  THEN <<deny(everyoneId, {"VIEW_CHANNEL"})>>
         \o (IF roleMapGet(channel.permissions.role_locked) # <<>>
             THEN <<allow(roleMapGet(channel.permissions.role_locked)[1], {"VIEW_CHANNEL"})>>
             ELSE <<>>)
         \o staffAllows(SelectSeq(getStaffRoleNames(roles),
                                  LAMBDA n : n # channel.permissions.role_locked),
                        {"VIEW_CHANNEL"})
  ELSE <<>>

\* if (channel.permissions?.role_locked)
roleLocked(channel, roles) ==
  IF channel.permissions.role_locked # ""
  THEN <<deny(everyoneId, {"VIEW_CHANNEL"})>>
         \o (IF roleMapGet(channel.permissions.role_locked) # <<>>
             THEN <<allow(roleMapGet(channel.permissions.role_locked)[1], {"VIEW_CHANNEL"})>>
             ELSE <<>>)
         \o staffAllows(getStaffRoleNames(roles), {"VIEW_CHANNEL"})
  ELSE <<>>

buildPermissionOverwrites_exclusive(channel, roles) ==
  everyoneRules(channel)
    \o (IF channel.permissions.staff_only THEN staffOnly(channel, roles)
        ELSE roleLocked(channel, roles))

\* ServerBuilder.buildPermissionOverwrites / SetupService.buildOverwrites: four independent ifs
buildPermissionOverwrites(channel, roles) ==
  everyoneRules(channel) \o staffOnly(channel, roles) \o roleLocked(channel, roles)

\* the order in which build runs its phases
buildPhases_swapped(p) ==
  CASE p = "preflight" -> "categories"
    [] p = "categories" -> "roles"
    [] p = "roles" -> "embeds"
    [] p = "embeds" -> "settings"
    [] p = "settings" -> "done"

buildPhases(p) ==
  CASE p = "preflight" -> "roles"
    [] p = "roles" -> "categories"
    [] p = "categories" -> "embeds"
    [] p = "embeds" -> "settings"
    [] p = "settings" -> "done"

executePhases_rolesAgain(p) ==
  CASE p = "roles" -> "roles"
    [] p = "categories" -> "embeds"
    [] p = "embeds" -> "settings"
    [] p = "settings" -> "done"

\* the order in which execute runs its phases
executePhases(p) ==
  CASE p = "roles" -> "categories"
    [] p = "categories" -> "embeds"
    [] p = "embeds" -> "settings"
    [] p = "settings" -> "done"

\* ------------------------------------------------- ServerBuilder.preflight
preflight_getGuild_call ==
  /\ engine = "build" /\ pc = "preflight_guild"
  /\ Issue(Attempt("getGuild", 0, 0))
  /\ UNCHANGED <<engine, template, options, pc, i, j, position, catId, roleMap, result,
                 errors, channelsWithEmbeds, requestCount, remote, pfErrors, regVars, overwrites, clientVars, runVars, checkVars>>

preflight_getGuild_return(resp) ==
  /\ engine = "build" /\ pc = "preflight_guild"
  /\ \E att \in inflight :
       /\ att.kind = "getGuild"
       /\ LET r == request(resp, retries) IN
          IF r.act = "retry"
          THEN /\ retries' = retries + 1
               /\ UNCHANGED <<inflight, pc, pfErrors>>
          ELSE /\ retries' = 0
               /\ inflight' = inflight \ {att}
               /\ pc' = "preflight_member"
               /\ pfErrors' =
                    IF r.act = "return" THEN pfErrors
                    ELSE IF r.status = 403 THEN pfErrors \cup {"no access"}
                    ELSE IF r.status = 404 THEN pfErrors \cup {"not found"}
                    ELSE pfErrors \cup {"cannot reach"}
  /\ UNCHANGED <<engine, template, options, i, j, position, catId, roleMap, result,
                 errors, channelsWithEmbeds, requestCount, paced, remote, phaseReached, regVars, overwrites, clientVars, runVars, checkVars>>

preflight_getBotMember_call ==
  /\ engine = "build" /\ pc = "preflight_member"
  /\ Issue(Attempt("getBotMember", 0, 0))
  /\ UNCHANGED <<engine, template, options, pc, i, j, position, catId, roleMap, result,
                 errors, channelsWithEmbeds, requestCount, remote, pfErrors, regVars, overwrites, clientVars, runVars, checkVars>>

\* (perms & required) === required || (perms & ADMINISTRATOR) !== 0n
hasRequiredPerms(perms) ==
  \/ {"MANAGE_CHANNELS", "MANAGE_ROLES", "MANAGE_GUILD"} \subseteq perms
  \/ "ADMINISTRATOR" \in perms

preflight_getBotMember_return(resp, perms) ==
  /\ engine = "build" /\ pc = "preflight_member"
  /\ \E att \in inflight :
       /\ att.kind = "getBotMember"
       /\ LET r == request(resp, retries) IN
          IF r.act = "retry"
          THEN /\ retries' = retries + 1
               /\ UNCHANGED <<inflight, pc, pfErrors>>
          ELSE /\ retries' = 0
               /\ inflight' = inflight \ {att}
               /\ pc' = "preflight_template"
               /\ pfErrors' =
                    IF r.act = "return" /\ ~hasRequiredPerms(perms)
                    THEN pfErrors \cup {"permissions"}
                    ELSE pfErrors
  /\ UNCHANGED <<engine, template, options, i, j, position, catId, roleMap, result,
                 errors, channelsWithEmbeds, requestCount, paced, remote, phaseReached, regVars, overwrites, clientVars, runVars, checkVars>>

\* the template checks of preflight
templateErrors ==
  (IF Len(template.categories) = 0 THEN {"no categories"} ELSE {})
    \cup (IF Len(template.roles) = 0 THEN {"no roles"} ELSE {})
    \cup (IF options.includeStaff /\ Len(getStaffRoleNames(template.roles)) = 0
          THEN {"no staff roles"} ELSE {})

\* end of preflight and build's decision on its verdict
preflight_template_ignored ==
  /\ engine = "build" /\ pc = "preflight_template"
  /\ awaited
  /\ pfErrors' = pfErrors \cup templateErrors
  /\ pc' = buildPhases("preflight")
  /\ UNCHANGED <<engine, template, options, i, j, position, catId, roleMap, result,
                 errors, channelsWithEmbeds, requestCount, paced, retries, inflight, remote,
                 phaseReached, regVars, overwrites, clientVars, runVars, checkVars>>

preflight_template ==
  /\ engine = "build" /\ pc = "preflight_template"
  /\ awaited
  /\ pfErrors' = pfErrors \cup templateErrors
  /\ pc' = IF pfErrors' = {} THEN buildPhases("preflight") ELSE "thrown"
  /\ UNCHANGED <<engine, template, options, i, j, position, catId, roleMap, result,
                 errors, channelsWithEmbeds, requestCount, paced, retries, inflight, remote,
                 phaseReached, regVars, overwrites, clientVars, runVars, checkVars>>

\* --------------------------------------------------- ServerBuilder phases
pushEmbed_nextChannel(queue, ch, id, c, k) ==
  IF ch.embed
  THEN Append(queue, [channelId |-> ChannelId(c, k + 1), cat |-> c, chan |-> k])
  ELSE queue

\* if (channel.embed) channelsWithEmbeds.push({ channelId: result.id, channelConfig: channel }):
\* the identifier the creation call returned, and the place of the channel in the template
pushEmbed(queue, ch, id, c, k) ==
  IF ch.embed
  THEN Append(queue, [channelId |-> id, cat |-> c, chan |-> k])
  ELSE queue

\* position after the channel loop of category i has handled channel j
afterChannel ==
  IF j < Len(template.categories[i].channels)
  THEN /\ j' = j + 1
       /\ UNCHANGED <<pc, i, catId>>
  ELSE /\ pc' = "categories"
       /\ i' = i + 1
       /\ j' = 0
       /\ catId' = NoId

createRoles_call ==
  /\ engine = "build" /\ pc = "roles"
  /\ i <= Len(template.roles)
  /\ Issue(Attempt("role", sortedRoles(template.roles)[i], 0))
  /\ UNCHANGED <<engine, template, options, pc, i, j, position, catId, roleMap, result,
                 errors, channelsWithEmbeds, requestCount, remote, pfErrors, regVars, overwrites, clientVars, runVars, checkVars>>

createRoles_return(resp) ==
  /\ engine = "build" /\ pc = "roles"
  /\ \E att \in inflight :
       /\ att.kind = "role"
       /\ LET r == request(resp, retries) IN
          CASE r.act = "retry" ->
                 /\ retries' = retries + 1
                 /\ UNCHANGED <<inflight, pc, i, roleMap, result, errors, requestCount, paced, remote>>
            [] r.act = "return" ->
                 /\ retries' = 0
                 /\ inflight' = inflight \ {att}
                 /\ roleMap' = roleMapSet(template.roles[att.a].name, RoleId(att.a))
                 /\ result' = [result EXCEPT !.rolesCreated = @ + 1]
                 /\ smartDelay
                 /\ remote' = remote \cup {RoleId(att.a)}
                 /\ i' = i + 1
                 /\ UNCHANGED <<pc, errors>>
            [] r.act = "throw" ->
                 /\ retries' = 0
                 /\ inflight' = inflight \ {att}
                 /\ IF isFatalError(r)
                    THEN /\ pc' = "thrown"
                         /\ UNCHANGED <<i, errors>>
                    ELSE /\ errors' = Append(errors, ErrorEntry("Role", template.roles[att.a].name))
                         /\ i' = i + 1
                         /\ UNCHANGED pc
                 /\ UNCHANGED <<roleMap, result, requestCount, paced, remote>>
  /\ UNCHANGED <<engine, template, options, j, position, catId, channelsWithEmbeds,
                 pfErrors, phaseReached, regVars, overwrites, clientVars, runVars, checkVars>>

createCategories_skip ==
  /\ engine = "build" /\ pc = "categories"
  /\ awaited
  /\ i <= Len(template.categories)
  /\ \/ ~options.includeStaff /\ isStaffCategory(template.categories[i])
     \/ ~options.includeEngagement /\ isEngagementCategory(template.categories[i])
  /\ i' = i + 1
  /\ UNCHANGED <<engine, template, options, pc, j, position, catId, roleMap, result,
                 errors, channelsWithEmbeds, requestCount, paced, retries, inflight, remote,
                 pfErrors, phaseReached, regVars, overwrites, clientVars, runVars, checkVars>>

createCategories_call ==
  /\ engine = "build" /\ pc = "categories"
  /\ i <= Len(template.categories)
  /\ ~(~options.includeStaff /\ isStaffCategory(template.categories[i]))
  /\ ~(~options.includeEngagement /\ isEngagementCategory(template.categories[i]))
  /\ Issue(Attempt("category", i, position))
  /\ position' = position + 1
  /\ UNCHANGED <<engine, template, options, pc, i, j, catId, roleMap, result,
                 errors, channelsWithEmbeds, requestCount, remote, pfErrors, regVars, overwrites, clientVars, runVars, checkVars>>

createCategories_return(resp) ==
  /\ engine = "build" /\ pc = "categories"
  /\ \E att \in inflight :
       /\ att.kind = "category"
       /\ LET r == request(resp, retries) IN
          CASE r.act = "retry" ->
                 /\ retries' = retries + 1
                 /\ UNCHANGED <<inflight, pc, i, j, catId, result, errors, remote>>
            [] r.act = "return" ->
                 /\ retries' = 0
                 /\ inflight' = inflight \ {att}
                 /\ result' = [result EXCEPT !.categoriesCreated = @ + 1]
                 /\ remote' = remote \cup {CategoryId(att.a)}
                 /\ IF Len(template.categories[i].channels) = 0
                    THEN /\ i' = i + 1
                         /\ UNCHANGED <<pc, j, catId>>
                    ELSE /\ pc' = "channels"
                         /\ j' = 1
                         /\ catId' = CategoryId(att.a)
                         /\ UNCHANGED i
                 /\ UNCHANGED errors
            [] r.act = "throw" ->
                 /\ retries' = 0
                 /\ inflight' = inflight \ {att}
                 /\ IF isFatalError(r)
                    THEN /\ pc' = "thrown"
                         /\ UNCHANGED <<i, errors>>
                    ELSE /\ errors' = Append(errors, ErrorEntry("Category", template.categories[i].name))
                         /\ i' = i + 1
                         /\ UNCHANGED pc
                 /\ UNCHANGED <<j, catId, result, remote>>
  /\ UNCHANGED <<engine, template, options, position, roleMap, channelsWithEmbeds,
                 requestCount, paced, pfErrors, phaseReached, regVars, overwrites, clientVars, runVars, checkVars>>

createChannel_call ==
  /\ engine = "build" /\ pc = "channels"
  /\ j <= Len(template.categories[i].channels)
  /\ Issue(Attempt("channel", i, j))
  /\ overwrites' = buildPermissionOverwrites(template.categories[i].channels[j], template.roles)
  /\ UNCHANGED <<engine, template, options, pc, i, j, position, catId, roleMap, result,
                 errors, channelsWithEmbeds, requestCount, remote, pfErrors, regVars, clientVars, runVars, checkVars>>

createChannel_return(resp) ==
  /\ engine = "build" /\ pc = "channels"
  /\ \E att \in inflight :
       /\ att.kind = "channel"
       /\ LET r == request(resp, retries)
              ch == template.categories[i].channels[j] IN
          CASE r.act = "retry" ->
                 /\ retries' = retries + 1
                 /\ UNCHANGED <<inflight, pc, i, j, catId, result, errors, channelsWithEmbeds,
                                requestCount, paced, remote>>
            [] r.act = "return" ->
                 /\ retries' = 0
                 /\ inflight' = inflight \ {att}
                 /\ result' = [result EXCEPT !.channelsCreated = @ + 1]
                 /\ remote' = remote \cup {ChannelId(att.a, att.b)}
                 /\ channelsWithEmbeds' =
                      pushEmbed(channelsWithEmbeds, ch, ChannelId(att.a, att.b), i, j)
                 /\ smartDelay
                 /\ afterChannel
                 /\ UNCHANGED errors
            [] r.act = "throw" ->
                 /\ retries' = 0
                 /\ inflight' = inflight \ {att}
                 /\ IF isFatalError(r)
                    THEN /\ pc' = "thrown"
                         /\ UNCHANGED <<i, j, catId, errors, requestCount, paced>>
                    ELSE /\ errors' = Append(errors, ErrorEntry("Channel", ch.name))
                         /\ smartDelay
                         /\ afterChannel
                 /\ UNCHANGED <<result, channelsWithEmbeds, remote>>
  /\ UNCHANGED <<engine, template, options, position, roleMap, pfErrors, phaseReached, regVars, overwrites, clientVars, runVars, checkVars>>

sendEmbeds_call ==
  /\ engine = "build" /\ pc = "embeds"
  /\ i <= Len(channelsWithEmbeds)
  /\ Issue(Attempt("embed", channelsWithEmbeds[i].channelId.a,
                   channelsWithEmbeds[i].channelId.b))
  /\ UNCHANGED <<engine, template, options, pc, i, j, position, catId, roleMap, result,
                 errors, channelsWithEmbeds, requestCount, remote, pfErrors, regVars, overwrites, clientVars, runVars, checkVars>>

sendEmbeds_return(resp) ==
  /\ engine = "build" /\ pc = "embeds"
  /\ \E att \in inflight :
       /\ att.kind = "embed"
       /\ LET r == request(resp, retries) IN
          CASE r.act = "retry" ->
                 /\ retries' = retries + 1
                 /\ UNCHANGED <<inflight, i, result, errors, requestCount, paced, remote>>
            [] r.act = "return" ->
                 /\ retries' = 0
                 /\ inflight' = inflight \ {att}
                 /\ result' = [result EXCEPT !.embedsSent = @ + 1]
                 /\ smartDelay
                 /\ remote' = remote \cup {MessageId(att.a, att.b)}
                 /\ i' = i + 1
                 /\ UNCHANGED errors
            [] r.act = "throw" ->
                 /\ retries' = 0
                 /\ inflight' = inflight \ {att}
                 /\ errors' = Append(errors,
                      ErrorEntry("Embed", template.categories[channelsWithEmbeds[i].cat]
                                            .channels[channelsWithEmbeds[i].chan].name))
                 /\ i' = i + 1
                 /\ UNCHANGED <<result, requestCount, paced, remote>>
  /\ UNCHANGED <<engine, template, options, pc, j, position, catId, roleMap,
                 channelsWithEmbeds, pfErrors, phaseReached, regVars, overwrites, clientVars, runVars, checkVars>>

applySettings_call ==
  /\ engine = "build" /\ pc = "settings"
  /\ template.settings
  /\ Issue(Attempt("settings", 0, 0))
  /\ UNCHANGED <<engine, template, options, pc, i, j, position, catId, roleMap, result,
                 errors, channelsWithEmbeds, requestCount, remote, pfErrors, regVars, overwrites, clientVars, runVars, checkVars>>

applySettings_return(resp) ==
  /\ engine = "build" /\ pc = "settings"
  /\ \E att \in inflight :
       /\ att.kind = "settings"
       /\ LET r == request(resp, retries) IN
          CASE r.act = "retry" ->
                 /\ retries' = retries + 1
                 /\ UNCHANGED <<inflight, pc, errors, remote>>
            [] r.act = "return" ->
                 /\ retries' = 0
                 /\ inflight' = inflight \ {att}
                 /\ remote' = remote \cup {SettingsId}
                 /\ pc' = buildPhases("settings")
                 /\ UNCHANGED errors
            [] r.act = "throw" ->
                 /\ retries' = 0
                 /\ inflight' = inflight \ {att}
                 /\ errors' = Append(errors, ErrorEntry("Settings", ""))
                 /\ pc' = buildPhases("settings")
                 /\ UNCHANGED remote
  /\ returned' = IF pc' = "done" THEN <<BuildResult(result, errors')>> ELSE returned
  /\ UNCHANGED <<engine, template, options, i, j, position, catId, roleMap, result,
                 channelsWithEmbeds, requestCount, paced, pfErrors, phaseReached, regVars,
                 overwrites, clientVars, runs, before, progress, checkVars>>

\* build: the barrier between two phases (a phase with nothing to do is passed over)
build ==
  /\ engine = "build"
  /\ awaited
  /\ \/ pc = "roles" /\ i > Len(template.roles)
     \/ pc = "categories" /\ i > Len(template.categories)
     \/ pc = "embeds" /\ i > Len(channelsWithEmbeds)
     \/ pc = "settings" /\ ~template.settings
  /\ pc' = buildPhases(pc)
  /\ i' = 1
  /\ returned' = IF pc' = "done" THEN <<BuildResult(result, errors)>> ELSE returned
  /\ UNCHANGED <<engine, template, options, j, position, catId, roleMap, result,
                 errors, channelsWithEmbeds, requestCount, paced, retries, inflight, remote,
                 pfErrors, phaseReached, regVars, overwrites, clientVars, runs, before, progress, checkVars>>

\* ---------------------------------------------------- SetupService.apiPost
apiPost_twice(resp, r) ==
  IF resp.status = 200 THEN [act |-> "return", status |-> 200, message |-> resp.message]
  ELSE IF r <= 1 /\ resp.status = 429
       THEN [act |-> "retry", status |-> resp.status, message |-> resp.message]
  ELSE [act |-> "throw", status |-> resp.status, message |-> resp.message]

\* what apiPost does with the answer to its first (r = 0) or second attempt
apiPost(resp, r) ==
  IF resp.status = 200 THEN [act |-> "return", status |-> 200, message |-> resp.message]
  ELSE IF r = 0 /\ resp.status = 429
       THEN [act |-> "retry", status |-> resp.status, message |-> resp.message]
  ELSE [act |-> "throw", status |-> resp.status, message |-> resp.message]

\* this.rest.patch, called directly by the settings phase
restPatch(resp) ==
  IF resp.status = 200 THEN [act |-> "return", status |-> 200, message |-> resp.message]
  ELSE [act |-> "throw", status |-> resp.status, message |-> resp.message]

\* --------------------------------------------------- SetupService.execute
execute_roles_call ==
  /\ engine = "execute" /\ pc = "roles"
  /\ i <= Len(template.roles)
  /\ Issue(Attempt("role", sortedRoles(template.roles)[i], 0))
  /\ requestCount' = requestCount + 1
  /\ progress' = onProgress("roles", i, Len(template.roles))
  /\ UNCHANGED <<engine, template, options, pc, i, j, position, catId, roleMap, result,
                 errors, channelsWithEmbeds, remote, pfErrors, regVars, overwrites, clientVars,
                 returned, runs, before, checkVars>>

execute_roles_return(resp) ==
  /\ engine = "execute" /\ pc = "roles"
  /\ \E att \in inflight :
       /\ att.kind = "role"
       /\ LET r == apiPost(resp, retries) IN
          CASE r.act = "retry" ->
                 /\ retries' = retries + 1
                 /\ UNCHANGED <<inflight, i, roleMap, result, errors, remote>>
            [] r.act = "return" ->
                 /\ retries' = 0
                 /\ inflight' = inflight \ {att}
                 /\ roleMap' = roleMapSet(template.roles[att.a].name, RoleId(att.a))
                 /\ result' = [result EXCEPT !.rolesCreated = @ + 1]
                 /\ remote' = remote \cup {RoleId(att.a)}
                 /\ i' = i + 1
                 /\ UNCHANGED errors
            [] r.act = "throw" ->
                 /\ retries' = 0
                 /\ inflight' = inflight \ {att}
                 /\ errors' = Append(errors, ErrorEntry("Role", template.roles[att.a].name))
                 /\ i' = i + 1
                 /\ UNCHANGED <<roleMap, result, remote>>
  /\ UNCHANGED <<engine, template, options, pc, j, position, catId, channelsWithEmbeds,
                 requestCount, paced, pfErrors, phaseReached, regVars, overwrites, clientVars, runVars, checkVars>>

execute_categories_call ==
  /\ engine = "execute" /\ pc = "categories"
  /\ i <= Len(template.categories)
  /\ Issue(Attempt("category", i, position))
  /\ position' = position + 1
  /\ requestCount' = requestCount + 1
  /\ progress' = onProgress("channels", i, Len(template.categories))
  /\ UNCHANGED <<engine, template, options, pc, i, j, catId, roleMap, result,
                 errors, channelsWithEmbeds, remote, pfErrors, regVars, overwrites, clientVars,
                 returned, runs, before, checkVars>>

execute_categories_return(resp) ==
  /\ engine = "execute" /\ pc = "categories"
  /\ \E att \in inflight :
       /\ att.kind = "category"
       /\ LET r == apiPost(resp, retries) IN
          CASE r.act = "retry" ->
                 /\ retries' = retries + 1
                 /\ UNCHANGED <<inflight, pc, i, j, catId, result, errors, remote>>
            [] r.act = "return" ->
                 /\ retries' = 0
                 /\ inflight' = inflight \ {att}
                 /\ result' = [result EXCEPT !.categoriesCreated = @ + 1]
                 /\ remote' = remote \cup {CategoryId(att.a)}
                 /\ IF Len(template.categories[i].channels) = 0
                    THEN /\ i' = i + 1
                         /\ UNCHANGED <<pc, j, catId>>
                    ELSE /\ pc' = "channels"
                         /\ j' = 1
                         /\ catId' = CategoryId(att.a)
                         /\ UNCHANGED i
                 /\ UNCHANGED errors
            [] r.act = "throw" ->
                 /\ retries' = 0
                 /\ inflight' = inflight \ {att}
                 /\ errors' = Append(errors, ErrorEntry("Category", template.categories[i].name))
                 /\ i' = i + 1
                 /\ UNCHANGED <<pc, j, catId, result, remote>>
  /\ UNCHANGED <<engine, template, options, position, roleMap, channelsWithEmbeds,
                 requestCount, paced, pfErrors, phaseReached, regVars, overwrites, clientVars, runVars, checkVars>>

execute_channels_call ==
  /\ engine = "execute" /\ pc = "channels"
  /\ j <= Len(template.categories[i].channels)
  /\ Issue(Attempt("channel", i, j))
  /\ requestCount' = requestCount + 1
  /\ overwrites' = buildPermissionOverwrites(template.categories[i].channels[j], template.roles)
  /\ UNCHANGED <<engine, template, options, pc, i, j, position, catId, roleMap, result,
                 errors, channelsWithEmbeds, remote, pfErrors, regVars, clientVars, runVars, checkVars>>

execute_channels_return(resp) ==
  /\ engine = "execute" /\ pc = "channels"
  /\ \E att \in inflight :
       /\ att.kind = "channel"
       /\ LET r == apiPost(resp, retries)
              ch == template.categories[i].channels[j] IN
          CASE r.act = "retry" ->
                 /\ retries' = retries + 1
                 /\ UNCHANGED <<inflight, pc, i, j, catId, result, errors, channelsWithEmbeds, remote>>
            [] r.act = "return" ->
                 /\ retries' = 0
                 /\ inflight' = inflight \ {att}
                 /\ result' = [result EXCEPT !.channelsCreated = @ + 1]
                 /\ remote' = remote \cup {ChannelId(att.a, att.b)}
                 /\ channelsWithEmbeds' =
                      pushEmbed(channelsWithEmbeds, ch, ChannelId(att.a, att.b), i, j)
                 /\ afterChannel
                 /\ UNCHANGED errors
            [] r.act = "throw" ->
                 /\ retries' = 0
                 /\ inflight' = inflight \ {att}
                 /\ errors' = Append(errors, ErrorEntry("Channel", ch.name))
                 /\ afterChannel
                 /\ UNCHANGED <<result, channelsWithEmbeds, remote>>
  /\ UNCHANGED <<engine, template, options, position, roleMap, requestCount, paced, pfErrors,
                 phaseReached, regVars, overwrites, clientVars, runVars, checkVars>>

execute_embeds_call ==
  /\ engine = "execute" /\ pc = "embeds"
  /\ i <= Len(channelsWithEmbeds)
  /\ Issue(Attempt("embed", channelsWithEmbeds[i].channelId.a,
                   channelsWithEmbeds[i].channelId.b))
  /\ requestCount' = requestCount + 1
  /\ progress' = onProgress("embeds", i, Len(channelsWithEmbeds))
  /\ UNCHANGED <<engine, template, options, pc, i, j, position, catId, roleMap, result,
                 errors, channelsWithEmbeds, remote, pfErrors, regVars, overwrites, clientVars,
                 returned, runs, before, checkVars>>

execute_embeds_return(resp) ==
  /\ engine = "execute" /\ pc = "embeds"
  /\ \E att \in inflight :
       /\ att.kind = "embed"
       /\ LET r == apiPost(resp, retries) IN
          CASE r.act = "retry" ->
                 /\ retries' = retries + 1
                 /\ UNCHANGED <<inflight, i, result, errors, remote>>
            [] r.act = "return" ->
                 /\ retries' = 0
                 /\ inflight' = inflight \ {att}
                 /\ result' = [result EXCEPT !.embedsSent = @ + 1]
                 /\ remote' = remote \cup {MessageId(att.a, att.b)}
                 /\ i' = i + 1
                 /\ UNCHANGED errors
            [] r.act = "throw" ->
                 /\ retries' = 0
                 /\ inflight' = inflight \ {att}
                 /\ errors' = Append(errors,
                      ErrorEntry("Embed", template.categories[channelsWithEmbeds[i].cat]
                                            .channels[channelsWithEmbeds[i].chan].name))
                 /\ i' = i + 1
                 /\ UNCHANGED <<result, remote>>
  /\ UNCHANGED <<engine, template, options, pc, j, position, catId, roleMap,
                 channelsWithEmbeds, requestCount, paced, pfErrors, phaseReached, regVars, overwrites, clientVars, runVars, checkVars>>

execute_settings_call ==
  /\ engine = "execute" /\ pc = "settings"
  /\ template.settings
  /\ Issue(Attempt("settings", 0, 0))
  /\ UNCHANGED <<engine, template, options, pc, i, j, position, catId, roleMap, result,
                 errors, channelsWithEmbeds, requestCount, remote, pfErrors, regVars, overwrites, clientVars, runVars, checkVars>>

execute_settings_return(resp) ==
  /\ engine = "execute" /\ pc = "settings"
  /\ \E att \in inflight :
       /\ att.kind = "settings"
       /\ LET r == restPatch(resp) IN
          /\ retries' = 0
          /\ inflight' = inflight \ {att}
          /\ pc' = executePhases("settings")
          /\ IF r.act = "return"
             THEN /\ remote' = remote \cup {SettingsId}
                  /\ UNCHANGED errors
             ELSE /\ errors' = Append(errors, ErrorEntry("Settings", ""))
                  /\ UNCHANGED remote
  /\ returned' = IF pc' = "done" THEN <<SetupResult(result, errors')>> ELSE returned
  /\ UNCHANGED <<engine, template, options, i, j, position, catId, roleMap, result,
                 channelsWithEmbeds, requestCount, paced, pfErrors, phaseReached, regVars,
                 overwrites, clientVars, runs, before, progress, checkVars>>

\* execute: the end of one phase loop and the start of the next
execute ==
  /\ engine = "execute"
  /\ awaited
  /\ \/ pc = "roles" /\ i > Len(template.roles)
     \/ pc = "categories" /\ i > Len(template.categories)
     \/ pc = "embeds" /\ i > Len(channelsWithEmbeds)
     \/ pc = "settings" /\ ~template.settings
  /\ pc' = executePhases(pc)
  /\ i' = 1
  /\ returned' = IF pc' = "done" THEN <<SetupResult(result, errors)>> ELSE returned
  /\ UNCHANGED <<engine, template, options, j, position, catId, roleMap, result,
                 errors, channelsWithEmbeds, requestCount, paced, retries, inflight, remote,
                 pfErrors, phaseReached, regVars, overwrites, clientVars, runs, before, progress, checkVars>>

\* ------------------------------------------------------- the pipeline spec
EmptyMap == [n \in {} |-> NoId]

NoInv == [k \in {} |-> 0]

Init ==
  /\ engine \in {"build", "execute"}
  /\ template \in Templates
  /\ options \in (IF engine = "build" THEN OptionSet
                  ELSE {[includeStaff |-> TRUE, includeEngagement |-> TRUE]})
  /\ pc = IF engine = "build" THEN "preflight_guild" ELSE "roles"
  /\ i = 1
  /\ j = 0
  /\ position = 0
  /\ catId = NoId
  /\ roleMap = EmptyMap
  /\ result = ZeroResult
  /\ errors = <<>>
  /\ channelsWithEmbeds = <<>>
  /\ requestCount = 0
  /\ retries = 0
  /\ inflight = {}
  /\ remote = {}
  /\ pfErrors = {}
  /\ phaseReached = 0
  /\ activeSetups = {}
  /\ inv = NoInv
  /\ paced = FALSE
  /\ overwrites = <<>>
  /\ NoClient
  /\ FirstRun
  /\ NoCheck

Next ==
  \/ preflight_getGuild_call
  \/ \E resp \in Responses : preflight_getGuild_return(resp)
  \/ preflight_getBotMember_call
  \/ \E resp \in Responses, perms \in MemberPerms : preflight_getBotMember_return(resp, perms)
  \/ preflight_template
  \/ createRoles_call
  \/ \E resp \in Responses : createRoles_return(resp)
  \/ createCategories_skip
  \/ createCategories_call
  \/ \E resp \in Responses : createCategories_return(resp)
  \/ createChannel_call
  \/ \E resp \in Responses : createChannel_return(resp)
  \/ sendEmbeds_call
  \/ \E resp \in Responses : sendEmbeds_return(resp)
  \/ applySettings_call
  \/ \E resp \in Responses : applySettings_return(resp)
  \/ build
  \/ execute_roles_call
  \/ \E resp \in Responses : execute_roles_return(resp)
  \/ execute_categories_call
  \/ \E resp \in Responses : execute_categories_return(resp)
  \/ execute_channels_call
  \/ \E resp \in Responses : execute_channels_return(resp)
  \/ execute_embeds_call
  \/ \E resp \in Responses : execute_embeds_return(resp)
  \/ execute_settings_call
  \/ \E resp \in Responses : execute_settings_return(resp)
  \/ execute

Spec == Init /\ [][Next]_vars

\* every awaited remote call is eventually answered, and the run then takes its next step
FairSpec == Spec /\ WF_vars(Next)

\* ------------------------------------------- failure-free runs, one after another
\* Runs in which the remote system accepts every call, and the same template run again
\* against the same target. `remote` holds what the current run has created, `before` what
\* the earlier runs have left on the target.
newInstance_shared(old) == old

\* new ServerBuilder(...) / new SetupService(...) and the locals of execute: the fields of a
\* fresh instance, whatever the previous instance held
newInstance(old) ==
  [roleMap |-> EmptyMap, result |-> ZeroResult, errors |-> <<>>, channelsWithEmbeds |-> <<>>,
   requestCount |-> 0]

\* the resources of a kind the current run has created
Created(kind) == Cardinality({id \in remote : id.t = kind})

\* the finished run's caller starts the same template against the same target again
rerun ==
  /\ pc = "done"
  /\ runs + 1 < MaxRuns
  /\ runs' = runs + 1
  /\ before' = [roles |-> before.roles + Created("role"),
                categories |-> before.categories + Created("category"),
                channels |-> before.channels + Created("channel"),
                messages |-> before.messages + Created("message")]
  /\ remote' = {}
  /\ LET new == newInstance([roleMap |-> roleMap, result |-> result, errors |-> errors,
                             channelsWithEmbeds |-> channelsWithEmbeds,
                             requestCount |-> requestCount])
     IN  /\ roleMap' = new.roleMap
         /\ result' = new.result
         /\ errors' = new.errors
         /\ channelsWithEmbeds' = new.channelsWithEmbeds
         /\ requestCount' = new.requestCount
  /\ pc' = IF engine = "build" THEN "preflight_guild" ELSE "roles"
  /\ i' = 1
  /\ j' = 0
  /\ position' = 0
  /\ catId' = NoId
  /\ retries' = 0
  /\ pfErrors' = {}
  /\ phaseReached' = 0
  /\ paced' = FALSE
  /\ overwrites' = <<>>
  /\ returned' = Undefined
  /\ UNCHANGED <<engine, template, options, inflight, regVars, clientVars, progress,
                 checkVars>>

NextNoFailure ==
  \/ preflight_getGuild_call
  \/ preflight_getGuild_return(OK)
  \/ preflight_getBotMember_call
  \/ \E perms \in MemberPerms : preflight_getBotMember_return(OK, perms)
  \/ preflight_template
  \/ createRoles_call
  \/ createRoles_return(OK)
  \/ createCategories_skip
  \/ createCategories_call
  \/ createCategories_return(OK)
  \/ createChannel_call
  \/ createChannel_return(OK)
  \/ sendEmbeds_call
  \/ sendEmbeds_return(OK)
  \/ applySettings_call
  \/ applySettings_return(OK)
  \/ build
  \/ execute_roles_call
  \/ execute_roles_return(OK)
  \/ execute_categories_call
  \/ execute_categories_return(OK)
  \/ execute_channels_call
  \/ execute_channels_return(OK)
  \/ execute_embeds_call
  \/ execute_embeds_return(OK)
  \/ execute_settings_call
  \/ execute_settings_return(OK)
  \/ execute
  \/ rerun

SpecNoFailure == Init /\ [][NextNoFailure]_vars

\* ------------------------------------------- the bot's registry of setups
Guilds == {"g1", "g2"}

Invs == 1..MaxInv

IdleInv == [cmd |-> "none", guild |-> "", pc |-> "idle"]

\* activeSetups.add(guild.id)
acquire(g) == activeSetups' = activeSetups \cup {g}

\* activeSetups.delete(guild.id)
release_forgotten(g) == UNCHANGED activeSetups

release(g) == activeSetups' = activeSetups \ {g}

goto(k, l) == inv' = [inv EXCEPT ![k].pc = l]

\* handleSetup up to the confirmation message: the guards and the registry check
handleSetup(k, g, admin, found) ==
  /\ inv[k].pc = "idle"
  /\ inv' = [inv EXCEPT ![k] =
       [cmd |-> "setup", guild |-> g,
        pc |-> IF ~admin THEN "done"
               ELSE IF g \in activeSetups THEN "rejected"
               ELSE IF ~found THEN "done"
               ELSE "confirm"]]
  /\ UNCHANGED <<activeSetups, pipeVars>>

\* the answer to awaitMessageComponent: a button, or the 30 s timeout
handleSetup_button(k, btn, ok) ==
  /\ inv[k].cmd = "setup" /\ inv[k].pc = "confirm"
  /\ CASE btn = "cancel" ->
            \* btnInteraction.update; its failure lands in the catch block
            /\ goto(k, "done")
            /\ IF ok THEN UNCHANGED activeSetups ELSE release(inv[k].guild)
       [] btn = "timeout" ->
            /\ goto(k, "done")
            /\ release(inv[k].guild)
       [] btn = "confirm" ->
            /\ acquire(inv[k].guild)
            /\ goto(k, "updating")
  /\ UNCHANGED pipeVars

\* await btnInteraction.update(progress embed), then the start of execute
handleSetup_update(k, ok) ==
  /\ inv[k].cmd = "setup" /\ inv[k].pc = "updating"
  /\ IF ok
     THEN /\ goto(k, "executing")
          /\ UNCHANGED activeSetups
     ELSE /\ goto(k, "done")
          /\ release(inv[k].guild)
  /\ UNCHANGED pipeVars

\* execute has returned its result
handleSetup_executed(k) ==
  /\ inv[k].cmd = "setup" /\ inv[k].pc = "executing"
  /\ release(inv[k].guild)
  /\ goto(k, "reporting")
  /\ UNCHANGED pipeVars

\* await interaction.editReply(result embed); its failure lands in the catch block
handleSetup_report(k, ok) ==
  /\ inv[k].cmd = "setup" /\ inv[k].pc = "reporting"
  /\ goto(k, "done")
  /\ IF ok THEN UNCHANGED activeSetups ELSE release(inv[k].guild)
  /\ UNCHANGED pipeVars

\* handleAI up to the preview message: guards and template generation
handleAI(k, g, admin, generated) ==
  /\ inv[k].pc = "idle"
  /\ inv' = [inv EXCEPT ![k] =
       [cmd |-> "ai", guild |-> g,
        pc |-> IF admin /\ generated THEN "confirm" ELSE "done"]]
  /\ UNCHANGED <<activeSetups, pipeVars>>

handleAI_button(k, btn, ok) ==
  /\ inv[k].cmd = "ai" /\ inv[k].pc = "confirm"
  /\ CASE btn \in {"cancel", "download"} ->
            /\ goto(k, "done")
            /\ IF ok THEN UNCHANGED activeSetups ELSE release(inv[k].guild)
       [] btn = "timeout" ->
            /\ goto(k, "done")
            /\ release(inv[k].guild)
       [] btn = "confirm" ->
            /\ acquire(inv[k].guild)
            /\ goto(k, "updating")
  /\ UNCHANGED pipeVars

handleAI_update(k, ok) ==
  /\ inv[k].cmd = "ai" /\ inv[k].pc = "updating"
  /\ IF ok
     THEN /\ goto(k, "executing")
          /\ UNCHANGED activeSetups
     ELSE /\ goto(k, "done")
          /\ release(inv[k].guild)
  /\ UNCHANGED pipeVars

handleAI_executed(k) ==
  /\ inv[k].cmd = "ai" /\ inv[k].pc = "executing"
  /\ release(inv[k].guild)
  /\ goto(k, "reporting")
  /\ UNCHANGED pipeVars

\* automod.apply and interaction.editReply; a failure lands in the catch block
handleAI_report(k, ok) ==
  /\ inv[k].cmd = "ai" /\ inv[k].pc = "reporting"
  /\ goto(k, "done")
  /\ IF ok THEN UNCHANGED activeSetups ELSE release(inv[k].guild)
  /\ UNCHANGED pipeVars

\* handleClone up to the backup of the source guild; the run's target is the `target`
\* option, and activeSetups is neither read nor written anywhere in the handler
handleClone(k, target, admin) ==
  /\ inv[k].pc = "idle"
  /\ inv' = [inv EXCEPT ![k] =
       [cmd |-> "clone", guild |-> target, pc |-> IF admin THEN "backup" ELSE "done"]]
  /\ UNCHANGED <<activeSetups, pipeVars>>

\* backupService.backup() and interaction.editReply; a failure lands in the catch block
handleClone_backup(k, ok) ==
  /\ inv[k].cmd = "clone" /\ inv[k].pc = "backup"
  /\ goto(k, IF ok THEN "executing" ELSE "done")
  /\ UNCHANGED <<activeSetups, pipeVars>>

\* execute has returned its result, which is then reported
handleClone_executed(k) ==
  /\ inv[k].cmd = "clone" /\ inv[k].pc = "executing"
  /\ goto(k, "done")
  /\ UNCHANGED <<activeSetups, pipeVars>>

Buttons == {"confirm", "cancel", "timeout"}

AIButtons == {"confirm", "cancel", "download", "timeout"}

EmptyTemplate == [roles |-> <<>>, categories |-> <<>>, settings |-> FALSE]

InitRegistry ==
  /\ engine = "none"
  /\ template = EmptyTemplate
  /\ options = [includeStaff |-> TRUE, includeEngagement |-> TRUE]
  /\ pc = "done"
  /\ i = 1
  /\ j = 0
  /\ position = 0
  /\ catId = NoId
  /\ roleMap = EmptyMap
  /\ result = ZeroResult
  /\ errors = <<>>
  /\ channelsWithEmbeds = <<>>
  /\ requestCount = 0
  /\ retries = 0
  /\ inflight = {}
  /\ remote = {}
  /\ pfErrors = {}
  /\ phaseReached = 0
  /\ activeSetups = {}
  /\ inv = [k \in Invs |-> IdleInv]
  /\ paced = FALSE
  /\ overwrites = <<>>
  /\ NoClient
  /\ FirstRun
  /\ NoCheck

\* the steps of a started invocation
Continue(k) ==
  \/ \E btn \in Buttons, ok \in BOOLEAN : handleSetup_button(k, btn, ok)
  \/ \E ok \in BOOLEAN : handleSetup_update(k, ok)
  \/ handleSetup_executed(k)
  \/ \E ok \in BOOLEAN : handleSetup_report(k, ok)
  \/ \E btn \in AIButtons, ok \in BOOLEAN : handleAI_button(k, btn, ok)
  \/ \E ok \in BOOLEAN : handleAI_update(k, ok)
  \/ handleAI_executed(k)
  \/ \E ok \in BOOLEAN : handleAI_report(k, ok)
  \/ \E ok \in BOOLEAN : handleClone_backup(k, ok)
  \/ handleClone_executed(k)

NextRegistry ==
  \/ \E k \in Invs, g \in Guilds, admin \in BOOLEAN, found \in BOOLEAN : handleSetup(k, g, admin, found)
  \/ \E k \in Invs, btn \in Buttons, ok \in BOOLEAN : handleSetup_button(k, btn, ok)
  \/ \E k \in Invs, ok \in BOOLEAN : handleSetup_update(k, ok)
  \/ \E k \in Invs : handleSetup_executed(k)
  \/ \E k \in Invs, ok \in BOOLEAN : handleSetup_report(k, ok)
  \/ \E k \in Invs, g \in Guilds, admin \in BOOLEAN, generated \in BOOLEAN : handleAI(k, g, admin, generated)
  \/ \E k \in Invs, btn \in AIButtons, ok \in BOOLEAN : handleAI_button(k, btn, ok)
  \/ \E k \in Invs, ok \in BOOLEAN : handleAI_update(k, ok)
  \/ \E k \in Invs : handleAI_executed(k)
  \/ \E k \in Invs, ok \in BOOLEAN : handleAI_report(k, ok)
  \/ \E k \in Invs, target \in Guilds, admin \in BOOLEAN : handleClone(k, target, admin)
  \/ \E k \in Invs, ok \in BOOLEAN : handleClone_backup(k, ok)
  \/ \E k \in Invs : handleClone_executed(k)

SpecRegistry == InitRegistry /\ [][NextRegistry]_vars

\* every awaited call of a started handler eventually settles (the button wait by its timeout)
FairSpecRegistry == SpecRegistry /\ \A k \in Invs : WF_vars(Continue(k))

\* ------------------------------------- the rate-limited wrappers and their timers
\* One call made through DiscordClient.request (engine "build") or through
\* SetupService.apiPost (engine "execute"), observed with a millisecond clock that runs
\* while one of the wrapper's timeouts is pending.
RetryAfters == {Undefined, <<1>>, <<2>>}

\* the rejection of an attempt, with the retry_after it may carry
withRetryAfter(resp, ra) == [status |-> resp.status, message |-> resp.message, retry_after |-> ra]

ClientResponses ==
  {withRetryAfter(resp, Undefined) : resp \in {r \in Responses : r.status # 429}}
    \cup {withRetryAfter(resp, ra) : resp \in {r \in Responses : r.status = 429}, ra \in RetryAfters}

retryAfter_seconds(resp) == IF resp.retry_after = Undefined THEN 1 ELSE resp.retry_after[1]

\* (err.retry_after ?? 1) * 1000
retryAfter(resp) == (IF resp.retry_after = Undefined THEN 1 ELSE resp.retry_after[1]) * 1000

delay_linear(r) == Min(1000 * (r + 1), 10000)

\* Math.min(1000 * Math.pow(2, retries), 10000)
delay(r) == Min(1000 * 2^r, 10000)

\* (err.retry_after ?? 2) * 1000
wait(resp) == (IF resp.retry_after = Undefined THEN 2 ELSE resp.retry_after[1]) * 1000

\* await new Promise(r => setTimeout(r, ms))
setTimeout(ms) ==
  /\ timer' = ms
  /\ elapsed' = 0

\* a timeout never fires early
fired == elapsed >= timer

\* one millisecond passes while a timeout is pending; it fires at most MaxLate ms late
Tick ==
  /\ pc \in {"pacing", "sleeping"}
  /\ elapsed < timer + MaxLate
  /\ elapsed' = elapsed + 1
  /\ UNCHANGED <<engine, template, options, pc, i, j, position, catId, roleMap, result,
                 errors, channelsWithEmbeds, requestCount, retries, inflight, remote, pfErrors,
                 phaseReached, paced, overwrites, timer, answer, attempts, raised, regVars, runVars, checkVars>>

\* the call under observation
TheCall == Attempt("role", 1, 0)

\* request(fn): the first attempt
request_call ==
  /\ engine = "build" /\ pc = "call"
  /\ Issue(TheCall)
  /\ attempts' = 1
  /\ pc' = "attempt"
  /\ UNCHANGED <<engine, template, options, i, j, position, catId, roleMap, result,
                 errors, channelsWithEmbeds, requestCount, remote, pfErrors, overwrites,
                 timer, elapsed, answer, raised, regVars, runVars, checkVars>>

\* fn() settles: return, sleep before a retry, or throw DiscordApiError
request_answer(resp) ==
  /\ engine = "build" /\ pc = "attempt"
  /\ \E att \in inflight :
       /\ inflight' = inflight \ {att}
       /\ answer' = resp
       /\ LET r == request(resp, retries) IN
          CASE r.act = "retry" ->
                 /\ setTimeout(IF resp.status = 429 THEN retryAfter(resp) ELSE delay(retries))
                 /\ pc' = "sleeping"
                 /\ UNCHANGED raised
            [] r.act = "return" ->
                 /\ pc' = "returned"
                 /\ UNCHANGED <<timer, elapsed, raised>>
            [] r.act = "throw" ->
                 /\ pc' = "thrown"
                 /\ raised' = [name |-> "DiscordApiError", status |-> r.status, message |-> r.message]
                 /\ UNCHANGED <<timer, elapsed>>
  /\ UNCHANGED <<engine, template, options, i, j, position, catId, roleMap, result,
                 errors, channelsWithEmbeds, requestCount, retries, remote, pfErrors,
                 phaseReached, paced, overwrites, attempts, regVars, runVars, checkVars>>

\* the timeout is over: return this.request(fn, retries + 1)
request_retry ==
  /\ engine = "build" /\ pc = "sleeping"
  /\ fired
  /\ inflight' = inflight \cup {TheCall}
  /\ retries' = retries + 1
  /\ attempts' = attempts + 1
  /\ pc' = "attempt"
  /\ UNCHANGED <<engine, template, options, i, j, position, catId, roleMap, result,
                 errors, channelsWithEmbeds, requestCount, remote, pfErrors, phaseReached,
                 paced, overwrites, timer, elapsed, answer, raised, regVars, runVars, checkVars>>

\* apiPost: the counter and the pause that precede the first attempt
apiPost_call ==
  /\ engine = "execute" /\ pc = "call"
  /\ requestCount' = requestCount + 1
  /\ setTimeout(IF requestCount' % 40 = 0 THEN 1000 ELSE 35)
  /\ pc' = "pacing"
  /\ UNCHANGED <<engine, template, options, i, j, position, catId, roleMap, result,
                 errors, channelsWithEmbeds, retries, inflight, remote, pfErrors,
                 phaseReached, paced, overwrites, answer, attempts, raised, regVars, runVars, checkVars>>

\* the pause is over: this.rest.post(route, { body })
apiPost_post ==
  /\ engine = "execute" /\ pc = "pacing"
  /\ fired
  /\ Issue(TheCall)
  /\ attempts' = 1
  /\ pc' = "attempt"
  /\ UNCHANGED <<engine, template, options, i, j, position, catId, roleMap, result,
                 errors, channelsWithEmbeds, requestCount, remote, pfErrors, overwrites,
                 timer, elapsed, answer, raised, regVars, runVars, checkVars>>

\* rest.post settles: return, sleep before the one retry, or throw
apiPost_answer(resp) ==
  /\ engine = "execute" /\ pc = "attempt"
  /\ \E att \in inflight :
       /\ inflight' = inflight \ {att}
       /\ answer' = resp
       /\ LET r == apiPost(resp, retries) IN
          CASE r.act = "retry" ->
                 /\ setTimeout(wait(resp))
                 /\ pc' = "sleeping"
                 /\ UNCHANGED raised
            [] r.act = "return" ->
                 /\ pc' = "returned"
                 /\ UNCHANGED <<timer, elapsed, raised>>
            [] r.act = "throw" ->
                 /\ pc' = "thrown"
                 /\ raised' = IF retries = 0
                              THEN [name |-> "Error", status |-> 0, message |-> r.message]
                              ELSE [name |-> "rejection of rest.post", status |-> r.status,
                                    message |-> r.message]
                 /\ UNCHANGED <<timer, elapsed>>
  /\ UNCHANGED <<engine, template, options, i, j, position, catId, roleMap, result,
                 errors, channelsWithEmbeds, requestCount, retries, remote, pfErrors,
                 phaseReached, paced, overwrites, attempts, regVars, runVars, checkVars>>

\* the wait is over: return (await this.rest.post(route, { body }))
apiPost_retry ==
  /\ engine = "execute" /\ pc = "sleeping"
  /\ fired
  /\ inflight' = inflight \cup {TheCall}
  /\ retries' = retries + 1
  /\ attempts' = attempts + 1
  /\ pc' = "attempt"
  /\ UNCHANGED <<engine, template, options, i, j, position, catId, roleMap, result,
                 errors, channelsWithEmbeds, requestCount, remote, pfErrors, phaseReached,
                 paced, overwrites, timer, elapsed, answer, raised, regVars, runVars, checkVars>>

InitClient ==
  /\ engine \in {"build", "execute"}
  /\ template = EmptyTemplate
  /\ options = [includeStaff |-> TRUE, includeEngagement |-> TRUE]
  /\ pc = "call"
  /\ i = 1
  /\ j = 0
  /\ position = 0
  /\ catId = NoId
  /\ roleMap = EmptyMap
  /\ result = ZeroResult
  /\ errors = <<>>
  /\ channelsWithEmbeds = <<>>
  /\ requestCount \in (IF engine = "execute" THEN {0, 39} ELSE {0})
  /\ retries = 0
  /\ inflight = {}
  /\ remote = {}
  /\ pfErrors = {}
  /\ phaseReached = 0
  /\ activeSetups = {}
  /\ inv = NoInv
  /\ paced = FALSE
  /\ overwrites = <<>>
  /\ NoClient
  /\ FirstRun
  /\ NoCheck

NextClient ==
  \/ request_call
  \/ \E resp \in ClientResponses : request_answer(resp)
  \/ request_retry
  \/ apiPost_call
  \/ apiPost_post
  \/ \E resp \in ClientResponses : apiPost_answer(resp)
  \/ apiPost_retry
  \/ Tick

SpecClient == InitClient /\ [][NextClient]_vars

\* ------------------------------------------ the channel call and its overwrites
\* The creation call of one channel, started where a run stands when the channel's category
\* has just been created: the roles have been attempted, some with success, and RoleMap
\* holds the created ones.
Optional(S) == {Undefined} \cup {<<v>> : v \in S}

\* role_locked: no rule, a role of the roster, or a name no role of the roster has
LockNames == {"", "Member", "Admin", "Ghost"}

ChannelPermissions ==
  [everyone : [send_messages : Optional(BOOLEAN), view_channel : Optional(BOOLEAN)],
   staff_only : BOOLEAN,
   role_locked : LockNames]

OverwriteTemplates ==
  { [roles |-> rs,
     categories |-> <<[name |-> "General",
                       channels |-> <<[name |-> "rules", embed |-> FALSE, permissions |-> p]>>]>>,
     settings |-> FALSE] : rs \in RoleLists, p \in ChannelPermissions }

\* RoleMap after the roles phase, when the roles with document index in C were created
createdRoleMap(roles, C) ==
  [n \in {roles[k].name : k \in C} |-> RoleId(CHOOSE k \in C : roles[k].name = n)]

\* result.errors after the roles phase, when exactly the roles in C were created
roleErrors(roles, C) ==
  LET failed == SelectSeq(sortedRoles(roles), LAMBDA k : k \notin C)
  IN  [m \in 1..Len(failed) |-> ErrorEntry("Role", roles[failed[m]].name)]

InitOverwrites ==
  /\ engine \in {"build", "execute"}
  /\ template \in OverwriteTemplates
  /\ options \in (IF engine = "build" THEN OptionSet
                  ELSE {[includeStaff |-> TRUE, includeEngagement |-> TRUE]})
  /\ (engine = "build" => templateErrors = {})
  /\ pc = "channels"
  /\ i = 1
  /\ j = 1
  /\ position = 1
  /\ catId = CategoryId(1)
  /\ \E C \in SUBSET (1..Len(template.roles)) :
       /\ roleMap = createdRoleMap(template.roles, C)
       /\ result = [ZeroResult EXCEPT !.rolesCreated = Cardinality(C), !.categoriesCreated = 1]
       /\ errors = roleErrors(template.roles, C)
       /\ remote = {RoleId(k) : k \in C} \cup {CategoryId(1)}
       /\ requestCount = IF engine = "build" THEN Cardinality(C) ELSE Len(template.roles) + 1
  /\ channelsWithEmbeds = <<>>
  /\ retries = 0
  /\ inflight = {}
  /\ pfErrors = {}
  /\ phaseReached = Rank("category")
  /\ activeSetups = {}
  /\ inv = NoInv
  /\ paced = FALSE
  /\ overwrites = <<>>
  /\ NoClient
  /\ FirstRun
  /\ NoCheck

NextOverwrites ==
  \/ createChannel_call
  \/ \E resp \in Responses : createChannel_return(resp)
  \/ execute_channels_call
  \/ \E resp \in Responses : execute_channels_return(resp)

SpecOverwrites == InitOverwrites /\ [][NextOverwrites]_vars

\* ------------------------------------ templates/validate.js and the bot's loadTemplate
\* One document, as JSON.parse returns it, handed to validate.js and to loadTemplate. An
\* absent top-level list is Undefined and a present one <<list>>; a string field that is
\* absent or empty is "" (both are falsy); a color is the sequence of its characters.
REQUIRED_FIELDS == <<"id", "name", "description", "categories", "roles">>

VALID_CHANNEL_TYPES == {"text", "voice", "stage", "forum", "announcement"}

\* /^#[0-9A-Fa-f]{6}$/.test(color)
colorRegex(color) ==
  /\ Len(color) = 7
  /\ color[1] = "#"
  /\ \A k \in 2..7 :
       color[k] \in {"0", "1", "2", "3", "4", "5", "6", "7", "8", "9",
                     "A", "B", "C", "D", "E", "F", "a", "b", "c", "d", "e", "f"}

\* !value for a string field: absent and empty are both ""
falsy(value) == value = ""

\* the truthiness of an optional number: undefined and 0 are falsy
truthyNumber(n) == n # Undefined /\ n[1] # 0

Colors ==
  { <<"#", "5", "8", "6", "5", "F", "2">>,
    <<"r", "e", "d">>,
    <<"#", "F", "F", "F">>,
    <<>> }

DocChannels(types, slowmodes, limits, embeds) ==
  [name : {"welcome", ""}, type : types, slowmode : slowmodes, user_limit : limits,
   embed : embeds, permissions : {NoRule}]

ValidatorDocs ==
  [id : {"gaming"}, name : {"Gaming", ""}, description : {"A gaming server"},
   categories :
     Optional(SeqsUpTo([name : {"General", ""},
                        channels : SeqsUpTo(DocChannels({"text", "video", ""},
                                                        {Undefined, <<0>>, <<-1>>, <<30000>>},
                                                        {Undefined, <<99>>, <<150>>}, {FALSE}),
                                            MaxChans)], 1)),
   roles : Optional(SeqsUpTo([name : {"Member", ""}, color : Colors, position : {0},
                              permissions : {<<>>}], 1)),
   settings : {FALSE}]

Count(errs, warns) == [errors |-> errs, warnings |-> warns]

plus(a, b) == Count(a.errors + b.errors, a.warnings + b.warnings)

validateChannel_rangeErrors(ch) ==
  Count((IF falsy(ch.name) THEN 1 ELSE 0)
          + (IF falsy(ch.type) THEN 1 ELSE 0)
          + (IF ~falsy(ch.type) /\ ch.type \notin VALID_CHANNEL_TYPES THEN 1 ELSE 0)
          + (IF truthyNumber(ch.slowmode) /\ (ch.slowmode[1] < 0 \/ ch.slowmode[1] > 21600)
             THEN 1 ELSE 0)
          + (IF truthyNumber(ch.user_limit) /\ (ch.user_limit[1] < 0 \/ ch.user_limit[1] > 99)
             THEN 1 ELSE 0),
        0)

\* the body of `for (const ch of cat.channels)`
validateChannel(ch) ==
  Count((IF falsy(ch.name) THEN 1 ELSE 0)
          + (IF falsy(ch.type) THEN 1 ELSE 0)
          + (IF ~falsy(ch.type) /\ ch.type \notin VALID_CHANNEL_TYPES THEN 1 ELSE 0),
        (IF truthyNumber(ch.slowmode) /\ (ch.slowmode[1] < 0 \/ ch.slowmode[1] > 21600)
         THEN 1 ELSE 0)
          + (IF truthyNumber(ch.user_limit) /\ (ch.user_limit[1] < 0 \/ ch.user_limit[1] > 99)
             THEN 1 ELSE 0))

RECURSIVE validateChannels(_)
validateChannels(chs) ==
  IF chs = <<>> THEN Count(0, 0)
  ELSE plus(validateChannel(Head(chs)), validateChannels(Tail(chs)))

\* the body of `for (const cat of template.categories)`; cat.channels is always a list here
RECURSIVE validateCategories(_)
validateCategories(cats) ==
  IF cats = <<>> THEN Count(0, 0)
  ELSE plus(plus(Count(IF falsy(Head(cats).name) THEN 1 ELSE 0, 0),
                 validateChannels(Head(cats).channels)),
            validateCategories(Tail(cats)))

\* the body of `for (const role of template.roles)`; !role.color is the empty color
RECURSIVE validateRoles(_)
validateRoles(roles) ==
  IF roles = <<>> THEN Count(0, 0)
  ELSE plus(Count((IF falsy(Head(roles).name) THEN 1 ELSE 0)
                    + (IF Len(Head(roles).color) = 0 THEN 1 ELSE 0)
                    + (IF Len(Head(roles).color) # 0 /\ ~colorRegex(Head(roles).color)
                       THEN 1 ELSE 0), 0),
            validateRoles(Tail(roles)))

\* the loop over REQUIRED_FIELDS: !template[field]; a present list, [] included, is truthy
RECURSIVE requiredFields(_, _)
requiredFields(doc, fields) ==
  IF fields = <<>> THEN Count(0, 0)
  ELSE plus(Count(IF (IF Head(fields) \in {"categories", "roles"}
                      THEN doc[Head(fields)] = Undefined ELSE falsy(doc[Head(fields)]))
                  THEN 1 ELSE 0, 0),
            requiredFields(doc, Tail(fields)))

\* validate(filePath): what one document adds to the two counters
validate(doc) ==
  plus(requiredFields(doc, REQUIRED_FIELDS),
       plus(IF doc.categories # Undefined THEN validateCategories(doc.categories[1])
            ELSE Count(0, 0),
            IF doc.roles # Undefined THEN validateRoles(doc.roles[1]) ELSE Count(0, 0)))

\* validate.js over a directory that holds the one document
validate_file ==
  /\ pc = "validate"
  /\ validation' = [validation EXCEPT !.errors = @ + validate(template).errors,
                                      !.warnings = @ + validate(template).warnings]
  /\ pc' = "results"
  /\ UNCHANGED <<engine, template, options, i, j, position, catId, roleMap, result, errors,
                 channelsWithEmbeds, requestCount, retries, inflight, remote, pfErrors,
                 phaseReached, paced, overwrites, clientVars, regVars, runVars, loaded,
                 permissions, acc>>

\* the tail of validate.js: process.exit(1) when an error was counted
validate_exit ==
  /\ pc = "results"
  /\ validation' = [validation EXCEPT !.exit = IF validation.errors > 0 THEN <<1>> ELSE <<0>>]
  /\ pc' = "exited"
  /\ UNCHANGED <<engine, template, options, i, j, position, catId, roleMap, result, errors,
                 channelsWithEmbeds, requestCount, retries, inflight, remote, pfErrors,
                 phaseReached, paced, overwrites, clientVars, regVars, runVars, loaded,
                 permissions, acc>>

\* loadTemplate(id) of the bot, once the file is read and parsed: null or the document
loadTemplate ==
  /\ loaded = ""
  /\ loaded' = IF falsy(template.name) \/ template.categories = Undefined
                    \/ template.roles = Undefined
               THEN "null" ELSE "template"
  /\ UNCHANGED <<engine, template, options, pc, i, j, position, catId, roleMap, result, errors,
                 channelsWithEmbeds, requestCount, retries, inflight, remote, pfErrors,
                 phaseReached, paced, overwrites, clientVars, regVars, runVars, validation,
                 permissions, acc>>

InitValidator ==
  /\ engine = "none"
  /\ template \in ValidatorDocs
  /\ options = [includeStaff |-> TRUE, includeEngagement |-> TRUE]
  /\ pc = "validate"
  /\ i = 1
  /\ j = 0
  /\ position = 0
  /\ catId = NoId
  /\ roleMap = EmptyMap
  /\ result = ZeroResult
  /\ errors = <<>>
  /\ channelsWithEmbeds = <<>>
  /\ requestCount = 0
  /\ retries = 0
  /\ inflight = {}
  /\ remote = {}
  /\ pfErrors = {}
  /\ phaseReached = 0
  /\ activeSetups = {}
  /\ inv = NoInv
  /\ paced = FALSE
  /\ overwrites = <<>>
  /\ NoClient
  /\ FirstRun
  /\ NoCheck

SpecValidator ==
  InitValidator /\ [][validate_file \/ validate_exit \/ loadTemplate]_vars

\* ------------------------------------------- runs over structurally invalid templates
\* Templates as the two engines receive them, with the fields validate.js looks at. Neither
\* engine reads them to decide anything: parseInt of a malformed color is NaN and
\* ChannelTypes[channel.type] ?? ChannelTypes.text (?? 0 in execute) is the text kind for an
\* unknown or missing kind; neither throws, so the calls go out as for a well-formed
\* template. The colors here are non-empty: role.color.replace throws on an absent color.
StructuredTemplates ==
  [roles : SeqsUpTo([name : {"Admin"}, position : {StaffPosition},
                     permissions : {<<"ADMINISTRATOR">>}, color : Colors \ {<<>>}], 1),
   categories : SeqsUpTo([name : CatNames,
                          channels : SeqsUpTo(DocChannels({"text", "video", ""}, {Undefined},
                                                          {Undefined}, BOOLEAN),
                                              MaxChans)], 1),
   settings : BOOLEAN]

InitStructure ==
  /\ engine \in {"build", "execute"}
  /\ template \in StructuredTemplates
  /\ options \in (IF engine = "build" THEN OptionSet
                  ELSE {[includeStaff |-> TRUE, includeEngagement |-> TRUE]})
  /\ pc = IF engine = "build" THEN "preflight_guild" ELSE "roles"
  /\ i = 1
  /\ j = 0
  /\ position = 0
  /\ catId = NoId
  /\ roleMap = EmptyMap
  /\ result = ZeroResult
  /\ errors = <<>>
  /\ channelsWithEmbeds = <<>>
  /\ requestCount = 0
  /\ retries = 0
  /\ inflight = {}
  /\ remote = {}
  /\ pfErrors = {}
  /\ phaseReached = 0
  /\ activeSetups = {}
  /\ inv = NoInv
  /\ paced = FALSE
  /\ overwrites = <<>>
  /\ NoClient
  /\ FirstRun
  /\ NoCheck

SpecStructure == InitStructure /\ [][NextNoFailure]_vars

\* ------------------------------------------------------------ resolvePermissions
\* A bigint mask is the set of the positions of its bits, and | is the union. The tables
\* give the position of the one bit of each flag (1n << k).
PermissionFlags ==
  [ADMINISTRATOR |-> 3, MANAGE_CHANNELS |-> 4, MANAGE_GUILD |-> 5, ADD_REACTIONS |-> 6,
   VIEW_CHANNEL |-> 10, SEND_MESSAGES |-> 11, MANAGE_MESSAGES |-> 13, EMBED_LINKS |-> 14,
   ATTACH_FILES |-> 15, MENTION_EVERYONE |-> 17, USE_EXTERNAL_EMOJIS |-> 18, CONNECT |-> 20,
   SPEAK |-> 21, MUTE_MEMBERS |-> 22, MANAGE_ROLES |-> 28, MANAGE_THREADS |-> 34,
   CREATE_PUBLIC_THREADS |-> 35, SEND_MESSAGES_IN_THREADS |-> 38, KICK_MEMBERS |-> 1,
   BAN_MEMBERS |-> 2]

PermMap ==
  [VIEW_CHANNEL |-> 10, SEND_MESSAGES |-> 11, MANAGE_CHANNELS |-> 4, MANAGE_GUILD |-> 5,
   MANAGE_ROLES |-> 28, MANAGE_MESSAGES |-> 13, KICK_MEMBERS |-> 1, BAN_MEMBERS |-> 2,
   ADMINISTRATOR |-> 3, MUTE_MEMBERS |-> 22, ADD_REACTIONS |-> 6, SPEAK |-> 21, CONNECT |-> 20,
   MANAGE_THREADS |-> 34, CREATE_PUBLIC_THREADS |-> 35, SEND_MESSAGES_IN_THREADS |-> 38]

\* table[p] on an object literal: its own property, else the property every object
\* inherits from Object.prototype (a function or an object, never a bigint), else undefined
Get(table, p) ==
  IF p \in DOMAIN table THEN [type |-> "bigint", bit |-> <<table[p]>>]
  ELSE IF p \in {"constructor", "toString", "toLocaleString", "valueOf", "hasOwnProperty",
                 "isPrototypeOf", "propertyIsEnumerable", "__proto__"}
       THEN [type |-> "object", bit |-> Undefined]
       ELSE [type |-> "undefined", bit |-> Undefined]

\* acc | v on a bigint acc: a TypeError unless v is a bigint too
bitOr(mask, v) ==
  IF v.type = "bigint" THEN [threw |-> FALSE, value |-> mask \cup {v.bit[1]}]
  ELSE [threw |-> TRUE, value |-> mask]

\* the callback of reduce in ServerBuilder.resolvePermissions: flag ? acc | flag : acc
\* (a flag 1n << k and an inherited property are truthy, undefined is falsy)
resolvePermissions_build(mask, p) ==
  IF Get(PermissionFlags, p).type # "undefined" THEN bitOr(mask, Get(PermissionFlags, p))
  ELSE [threw |-> FALSE, value |-> mask]

\* the callback of reduce in SetupService.resolvePermissions: acc | (PermMap[p] || 0n)
resolvePermissions_execute(mask, p) ==
  IF Get(PermMap, p).type # "undefined" THEN bitOr(mask, Get(PermMap, p))
  ELSE [threw |-> FALSE, value |-> mask]

PermNames == {"ADMINISTRATOR", "SEND_MESSAGES", "EMBED_LINKS", "MANAGE_EMOJIS", "constructor"}

\* one call of the callback by reduce, on the next name of the list
resolvePermissions_step ==
  /\ pc = "reduce"
  /\ i <= Len(permissions)
  /\ LET r == IF engine = "build" THEN resolvePermissions_build(acc, permissions[i])
              ELSE resolvePermissions_execute(acc, permissions[i]) IN
       /\ acc' = r.value
       /\ pc' = IF r.threw THEN "TypeError" ELSE "reduce"
       /\ i' = IF r.threw THEN i ELSE i + 1
  /\ UNCHANGED <<engine, template, options, j, position, catId, roleMap, result, errors,
                 channelsWithEmbeds, requestCount, retries, inflight, remote, pfErrors,
                 phaseReached, paced, overwrites, clientVars, regVars, runVars, validation,
                 loaded, permissions>>

\* reduce returns the accumulator once the list is exhausted
resolvePermissions_return ==
  /\ pc = "reduce"
  /\ i > Len(permissions)
  /\ pc' = "resolved"
  /\ UNCHANGED <<engine, template, options, i, j, position, catId, roleMap, result, errors,
                 channelsWithEmbeds, requestCount, retries, inflight, remote, pfErrors,
                 phaseReached, paced, overwrites, clientVars, regVars, runVars, checkVars>>

InitResolver ==
  /\ engine \in {"build", "execute"}
  /\ template = EmptyTemplate
  /\ options = [includeStaff |-> TRUE, includeEngagement |-> TRUE]
  /\ pc = "reduce"
  /\ i = 1
  /\ j = 0
  /\ position = 0
  /\ catId = NoId
  /\ roleMap = EmptyMap
  /\ result = ZeroResult
  /\ errors = <<>>
  /\ channelsWithEmbeds = <<>>
  /\ requestCount = 0
  /\ retries = 0
  /\ inflight = {}
  /\ remote = {}
  /\ pfErrors = {}
  /\ phaseReached = 0
  /\ activeSetups = {}
  /\ inv = NoInv
  /\ paced = FALSE
  /\ overwrites = <<>>
  /\ NoClient
  /\ FirstRun
  /\ validation = NoValidation
  /\ loaded = ""
  /\ permissions \in SeqsUpTo(PermNames, MaxPerms)
  /\ acc = {}

SpecResolver ==
  InitResolver /\ [][resolvePermissions_step \/ resolvePermissions_return]_vars

\* ------------------------------------------------------------ ServerBuilder.dryRun
\* Array.prototype.sort with (a, b) => b.position - a.position: a stable sort, highest
\* position first; insertDesc puts one more role into a list already sorted
RECURSIVE insertDesc(_, _)
insertDesc(s, role) ==
  IF s = <<>> THEN <<role>>
  ELSE IF role.position - Head(s).position <= 0
       THEN <<Head(s)>> \o insertDesc(Tail(s), role)
       ELSE <<role>> \o s

RECURSIVE sortDesc(_)
sortDesc(roles) ==
  IF roles = <<>> THEN <<>>
  ELSE insertDesc(sortDesc(SubSeq(roles, 1, Len(roles) - 1)), roles[Len(roles)])

\* dryRun(): prints the preview; it contacts nothing, and its loop over the roles iterates
\* this.template.roles.sort(...), which sorts the template's own array
dryRun ==
  /\ engine = "build" /\ pc = "preflight_guild"
  /\ awaited
  /\ template' = [template EXCEPT !.roles = sortDesc(template.roles)]
  /\ UNCHANGED <<engine, options, pc, i, j, position, catId, roleMap, result, errors,
                 channelsWithEmbeds, requestCount, retries, inflight, remote, pfErrors,
                 phaseReached, paced, overwrites, clientVars, regVars, runVars, checkVars>>

SpecDryRun == Init /\ [][NextNoFailure \/ dryRun]_vars

\* ------------------------------------------------ runs over rosters with shared names
\* Templates in which two roles may carry the same name: a role that is staff by its
\* permissions alone, a role of the same name that is not staff, and a third role.
DuplicateTemplates ==
  [roles : SeqsUpTo({ [name |-> "Mod", position |-> 0, permissions |-> <<"MANAGE_GUILD">>],
                      [name |-> "Mod", position |-> 5, permissions |-> <<>>],
                      [name |-> "Member", position |-> 0, permissions |-> <<>>] }, MaxRoles),
   categories :
     SeqsUpTo([name : CatNames,
               channels : SeqsUpTo([name : {"rules"}, embed : BOOLEAN,
                                    permissions : {[NoRule EXCEPT !.staff_only = TRUE],
                                                   [NoRule EXCEPT !.role_locked = "Mod"]}],
                                   MaxChans)], 1),
   settings : BOOLEAN]

InitDuplicates ==
  /\ engine \in {"build", "execute"}
  /\ template \in DuplicateTemplates
  /\ options \in (IF engine = "build" THEN OptionSet
                  ELSE {[includeStaff |-> TRUE, includeEngagement |-> TRUE]})
  /\ pc = IF engine = "build" THEN "preflight_guild" ELSE "roles"
  /\ i = 1
  /\ j = 0
  /\ position = 0
  /\ catId = NoId
  /\ roleMap = EmptyMap
  /\ result = ZeroResult
  /\ errors = <<>>
  /\ channelsWithEmbeds = <<>>
  /\ requestCount = 0
  /\ retries = 0
  /\ inflight = {}
  /\ remote = {}
  /\ pfErrors = {}
  /\ phaseReached = 0
  /\ activeSetups = {}
  /\ inv = NoInv
  /\ paced = FALSE
  /\ overwrites = <<>>
  /\ NoClient
  /\ FirstRun
  /\ NoCheck

SpecDuplicates == InitDuplicates /\ [][Next]_vars

\* ================================================================ claims
\* answers that report an authentication failure or a denial of access to the target
FatalResponses ==
  { resp \in ErrResponses :
      resp.status = 401 \/ (resp.status = 403 /\ resp.message = "Missing Access") }

\* the answer to a role, category, channel or embed call of ServerBuilder
BuildItemReturn(resp) ==
  \/ createRoles_return(resp)
  \/ createCategories_return(resp)
  \/ createChannel_return(resp)
  \/ sendEmbeds_return(resp)

\* the answer to a role, category, channel or embed call of SetupService
ExecuteItemReturn(resp) ==
  \/ execute_roles_return(resp)
  \/ execute_categories_return(resp)
  \/ execute_channels_return(resp)
  \/ execute_embeds_return(resp)

RoleErrors == Cardinality({k \in 1..Len(errors) : errors[k].item = "Role"})

\* C1: the remote calls of a run form one sequential, phase-ordered trace: at most one
\* attempt is in flight at any time, and an attempt in flight never belongs to an earlier
\* phase than one already issued (roles, then categories and channels, then embeds, then
\* settings).
C1_SequentialPhaseOrder ==
  /\ Cardinality(inflight) <= 1
  /\ \A att \in inflight : Rank(att.kind) >= phaseReached

C1_Witness ==
  /\ \E att \in inflight : att.kind = "settings"
  /\ result.rolesCreated > 0
  /\ result.channelsCreated > 0
  /\ result.embedsSent > 0

\* C2: in ServerBuilder.build a fatal answer (401, or 403 Missing Access) to a role, category,
\* channel, embed or settings call makes build throw at once; after the throw no call is in
\* flight and the remote resources stay as they are.
C2_FatalAbortsBuild ==
  /\ [][\A resp \in FatalResponses :
          (BuildItemReturn(resp) \/ applySettings_return(resp)) => pc' = "thrown"]_vars
  /\ [](pc = "thrown" => inflight = {})
  /\ [][pc = "thrown" => remote' = remote]_vars

\* C3: in SetupService.execute a fatal answer (401, or 403 Missing Access) to any call ends
\* the run at once: execute leaves its phases and issues no further call.
C3_FatalAbortsExecute ==
  [][\A resp \in FatalResponses :
       (ExecuteItemReturn(resp) \/ execute_settings_return(resp))
         => (pc' \notin {"roles", "categories", "channels", "embeds", "settings"})]_vars

\* the loop position after the item at hand has been dealt with
C4_NextItem ==
  CASE pc = "channels" ->
         IF j < Len(template.categories[i].channels)
         THEN pc' = "channels" /\ i' = i /\ j' = j + 1
         ELSE pc' = "categories" /\ i' = i + 1
    [] OTHER -> pc' = pc /\ i' = i + 1

\* C4: a non-fatal failure of one role, category, channel or embed appends exactly one
\* message to the error list, leaves the counters unchanged and moves on to the next item of
\* the phase; the run is not aborted.
C4_PerItemFailure ==
  [][\A resp \in ErrResponses \ FatalResponses :
       ((BuildItemReturn(resp) \/ ExecuteItemReturn(resp)) /\ inflight' = {})
         => /\ Len(errors') = Len(errors) + 1
            /\ SubSeq(errors', 1, Len(errors)) = errors
            /\ result' = result
            /\ remote' = remote
            /\ C4_NextItem]_vars

C4_Witness ==
  /\ pc = "done"
  /\ Len(errors) >= 2
  /\ errors[1].item = "Role"
  /\ result.rolesCreated > 0
  /\ result.channelsCreated > 0

\* C5: when preflight has reported an error, build is still in preflight or has thrown, and
\* no mutating call was issued and nothing exists on the remote system.
C5_PreflightBlocks ==
  (engine = "build" /\ pfErrors # {})
    => /\ pc \in {"preflight_member", "preflight_template", "thrown"}
       /\ phaseReached = 0
       /\ remote = {}
       /\ \A att \in inflight : att.kind \notin MutatingKinds

C5_Witness ==
  /\ engine = "build"
  /\ pc = "thrown"
  /\ "no staff roles" \in pfErrors
  /\ Len(template.categories) > 0

\* the invocations of a command that are running execute for guild g
Executing(cmds, g) ==
  {k \in Invs : inv[k].cmd \in cmds /\ inv[k].guild = g /\ inv[k].pc = "executing"}

\* C6: at most one execute started by /clawdiscord setup is in progress for a guild.
C6_OneSetupPerGuild ==
  \A g \in Guilds : Cardinality(Executing({"setup"}, g)) <= 1

\* C7: a guild id that is in activeSetups is eventually removed from it.
C7_EventuallyReleased ==
  \A g \in Guilds : (g \in activeSetups) ~> (g \notin activeSetups)

C7_Witness ==
  /\ "g1" \in activeSetups
  /\ \E k \in Invs : inv[k].cmd = "setup" /\ inv[k].pc = "updating"
  /\ \E k \in Invs : inv[k].cmd = "ai" /\ inv[k].pc = "executing"

\* the roles of the template that a channel rule refers to: named by role_locked, or staff
C8_Referenced ==
  { k \in 1..Len(template.roles) :
      \/ isStaffRole(template.roles[k])
      \/ \E c \in 1..Len(template.categories) :
           \E n \in 1..Len(template.categories[c].channels) :
             template.categories[c].channels[n].permissions.role_locked = template.roles[k].name }

\* C8 as stated: once a category or channel call has been issued, RoleMap has an entry for
\* every referenced role of the template.
C8_AllReferencedInRoleMap ==
  phaseReached >= 2 =>
    \A k \in C8_Referenced : template.roles[k].name \in DOMAIN roleMap

\* C8 as amended: once a category or channel call has been issued, every role of the template
\* has been attempted, and RoleMap has an entry for every referenced role whose creation
\* succeeded.
C8_CreatedReferencedInRoleMap ==
  phaseReached >= 2 =>
    /\ result.rolesCreated + RoleErrors = Len(template.roles)
    /\ \A k \in C8_Referenced :
         RoleId(k) \in remote => template.roles[k].name \in DOMAIN roleMap

C8_Witness ==
  /\ phaseReached = 2
  /\ \E att \in inflight : att.kind = "channel"
  /\ "Admin" \in DOMAIN roleMap
  /\ RoleErrors = 1

\* role y is created before role x: lower position, or equal position and earlier in the document
C9_Before(y, x) ==
  \/ template.roles[y].position < template.roles[x].position
  \/ template.roles[y].position = template.roles[x].position /\ y < x

\* C9: while the creation call of role x is in flight, the roles attempted so far are exactly
\* the roles that come before x in (position, document) order, and every role created so far
\* is in RoleMap under its name (with the identifier of the last role created under that name).
C9_AscendingPositions ==
  \A att \in inflight :
    att.kind = "role" =>
      /\ \A z \in 1..Len(template.roles) : RoleId(z) \in remote => C9_Before(z, att.a)
      /\ Cardinality({y \in 1..Len(template.roles) : C9_Before(y, att.a)})
           = result.rolesCreated + RoleErrors
      /\ \A z \in 1..Len(template.roles) :
           RoleId(z) \in remote =>
             /\ template.roles[z].name \in DOMAIN roleMap
             /\ \E w \in 1..Len(template.roles) :
                  /\ template.roles[w].name = template.roles[z].name
                  /\ RoleId(w) \in remote
                  /\ ~C9_Before(w, z)
                  /\ roleMap[template.roles[z].name] = RoleId(w)

C9_Witness ==
  \E att \in inflight :
    /\ att.kind = "role"
    /\ \E z \in 1..Len(template.roles) : z > att.a /\ RoleId(z) \in remote

\* the answer to any call made through DiscordClient.request
RequestReturn(resp) ==
  \/ preflight_getGuild_return(resp)
  \/ \E perms \in MemberPerms : preflight_getBotMember_return(resp, perms)
  \/ BuildItemReturn(resp)
  \/ applySettings_return(resp)

\* C10: a call made through DiscordClient.request is retried at most maxRetries times, and a
\* 429 or 5xx answer to the attempt made after maxRetries retries ends the call with a failure:
\* nothing is retried and nothing is created.
C10_RetryCeiling ==
  /\ [](engine = "build" => retries <= maxRetries)
  /\ [][\A resp \in {r \in ErrResponses : r.status = 429 \/ r.status >= 500} :
          (RequestReturn(resp) /\ retries = maxRetries)
            => (inflight' = {} /\ retries' = 0 /\ result' = result /\ remote' = remote)]_vars

C10_Witness ==
  /\ engine = "build"
  /\ retries = maxRetries
  /\ \E att \in inflight : att.kind = "channel"

\* C11: when an attempt is re-issued after a 429 that advertised a wait of w seconds, at least
\* w * 1000 ms have elapsed since that 429 was received (DiscordClient.request and
\* SetupService.apiPost alike).
C11_WaitsAdvertised ==
  (pc = "attempt" /\ retries > 0 /\ answer.status = 429 /\ answer.retry_after # Undefined)
    => elapsed >= answer.retry_after[1] * 1000

C11_Witness ==
  /\ engine = "execute"
  /\ pc = "attempt"
  /\ retries = 1
  /\ answer.status = 429
  /\ answer.retry_after = <<2>>
  /\ elapsed = 2000

RateLimited == {resp \in ErrResponses : resp.status = 429}

\* C13: every attempt of a mutating call of SetupService.execute is made by apiPost: the
\* request counter advances (and the pause is made) before each call and before the retry
\* of a call, and a 429 answer to any attempt, the retry's and the settings call's included,
\* is followed by the wait and a retry instead of a failure.
C13_AllThroughApiPost ==
  /\ [][(engine = "execute" /\ \E att \in inflight' : att \notin inflight)
          => requestCount' = requestCount + 1]_vars
  /\ [][(engine = "execute" /\ retries' = retries + 1)
          => requestCount' = requestCount + 1]_vars
  /\ [][\A resp \in RateLimited :
          (ExecuteItemReturn(resp) \/ execute_settings_return(resp))
            => (inflight' = inflight /\ errors' = errors)]_vars

\* C14: in a ServerBuilder run, whenever a role, category, channel, embed or settings call is
\* issued after an earlier mutating call, smartDelay has been performed in between.
C14_PacedBetweenCalls ==
  [][(/\ engine = "build"
      /\ phaseReached >= 1
      /\ \E att \in inflight' : att \notin inflight /\ att.kind \in MutatingKinds)
       => paced]_vars

\* the waits the claim lists, by number of retries already made
C15_Backoffs == <<1000, 2000, 4000>>

\* C15: DiscordClient.request retries a 5xx answer after a wait of 1000, 2000, 4000 ms when
\* 0, 1, 2 retries have been made (the retry is not issued before that wait is over), never
\* makes more than 3 retries, and a 5xx answer after 3 retries ends the call with a throw.
C15_ExponentialBackoff ==
  engine = "build" =>
    /\ retries <= 3
    /\ (pc = "sleeping" /\ answer.status >= 500)
         => (retries < 3 /\ timer = C15_Backoffs[retries + 1])
    /\ (pc = "attempt" /\ retries > 0 /\ answer.status >= 500)
         => elapsed >= C15_Backoffs[retries]
    /\ (pc # "attempt" /\ retries = 3 /\ answer.status >= 500)
         => (pc = "thrown" /\ raised.status = answer.status)

C15_Witness ==
  /\ engine = "build"
  /\ pc = "attempt"
  /\ retries = 3
  /\ answer.status = 500
  /\ elapsed >= 4000

\* the channel a channel-creation attempt is for
ChannelOf(att) == template.categories[att.a].channels[att.b]

\* the staff roles of the template that have an entry in RoleMap: document indices, in
\* template order
StaffInRoleMap ==
  SelectSeq([k \in 1..Len(template.roles) |-> k],
            LAMBDA k : /\ \/ template.roles[k].position >= 12
                          \/ includes(template.roles[k].permissions, "ADMINISTRATOR")
                          \/ includes(template.roles[k].permissions, "MANAGE_GUILD")
                       /\ template.roles[k].name \in DOMAIN roleMap)

StaffId(k) == roleMap[template.roles[StaffInRoleMap[k]].name]

\* the number of entries the two everyone rules put in front of the list
EveryoneEntries(ch) ==
  (IF ch.permissions.everyone.send_messages = <<FALSE>> THEN 1 ELSE 0)
    + (IF ch.permissions.everyone.view_channel = <<FALSE>> THEN 1 ELSE 0)

DenyView == [id |-> everyoneId, type |-> 0, allow |-> {}, deny |-> {"VIEW_CHANNEL"}]

AllowView(id) == [id |-> id, type |-> 0, allow |-> {"VIEW_CHANNEL"}, deny |-> {}]

AllowViewSend(id) ==
  [id |-> id, type |-> 0, allow |-> {"VIEW_CHANNEL", "SEND_MESSAGES"}, deny |-> {}]

C17_RoleLocked ==
  \A att \in inflight :
    (/\ att.kind = "channel"
     /\ ChannelOf(att).permissions.role_locked # ""
     /\ ChannelOf(att).permissions.role_locked \in DOMAIN roleMap) =>
      LET n == Len(StaffInRoleMap)
          L == Len(overwrites)
      IN  /\ L >= n + 2
          /\ overwrites[L - n - 1] = DenyView
          /\ overwrites[L - n] = AllowView(roleMap[ChannelOf(att).permissions.role_locked])
          /\ \A k \in 1..n : overwrites[L - n + k] = AllowView(StaffId(k))
          /\ ~ChannelOf(att).permissions.staff_only
               => L = EveryoneEntries(ChannelOf(att)) + n + 2

C17_Witness ==
  \E att \in inflight :
    /\ att.kind = "channel"
    /\ ChannelOf(att).permissions.role_locked = "Member"
    /\ "Member" \in DOMAIN roleMap
    /\ Len(StaffInRoleMap) = 1
    /\ Len(overwrites) = 3

\* the channel's role_locked rule names a role that has no entry in RoleMap
C18_Absent(ch) ==
  /\ ch.permissions.role_locked # ""
  /\ ch.permissions.role_locked \notin DOMAIN roleMap

C20_StaffLocked(ch) ==
  /\ ch.permissions.role_locked \in DOMAIN roleMap
  /\ \E k \in 1..Len(template.roles) :
       template.roles[k].name = ch.permissions.role_locked /\ isStaffRole(template.roles[k])

\* the positions of the allow-VIEW_CHANNEL entries that target the locked role's identifier
C20_Entries(ch) ==
  {m \in 1..Len(overwrites) : overwrites[m] = AllowView(roleMap[ch.permissions.role_locked])}

\* C20 as stated: when role_locked names a staff role that is in RoleMap, the overwrites sent
\* contain exactly one allow-VIEW_CHANNEL entry targeting that role's identifier.
C20_Deduplicated ==
  \A att \in inflight :
    (att.kind = "channel" /\ C20_StaffLocked(ChannelOf(att)))
      => Cardinality(C20_Entries(ChannelOf(att))) = 1

\* C20 as amended: the list is not deduplicated: it contains the named-role rule's
\* allow-VIEW_CHANNEL entry for R and, after it, one more from the staff loop for each staff
\* role of the template named R, so at least two entries target R's identifier.
C20_NamedStaffRoleTwice ==
  \A att \in inflight :
    (att.kind = "channel" /\ C20_StaffLocked(ChannelOf(att))) =>
      LET ch == ChannelOf(att)
          n == Len(StaffInRoleMap)
          L == Len(overwrites)
          named == {k \in 1..n : template.roles[StaffInRoleMap[k]].name = ch.permissions.role_locked}
      IN  /\ C20_Entries(ch) = {L - n} \cup {L - n + k : k \in named}
          /\ Cardinality(C20_Entries(ch)) = 1 + Cardinality(named)
          /\ Cardinality(C20_Entries(ch)) >= 2

C20_Witness ==
  \E att \in inflight :
    /\ att.kind = "channel"
    /\ ChannelOf(att).permissions.role_locked = "Admin"
    /\ DOMAIN roleMap = {"Member", "Admin"}
    /\ overwrites = <<DenyView, AllowView(roleMap["Admin"]), AllowView(roleMap["Admin"])>>

\* C21: the SetupResult that SetupService.execute returns carries the run's counters and
\* error list, and its success flag is true exactly when that error list is empty, whatever
\* the counters are.
C21_SuccessIffNoErrors ==
  (engine = "execute" /\ pc = "done") =>
    /\ returned # Undefined
    /\ returned[1].stats = result
    /\ returned[1].errors = errors
    /\ returned[1].success <=> (Len(errors) = 0)

C21_Witness ==
  /\ engine = "execute"
  /\ pc = "done"
  /\ Len(errors) = 1
  /\ errors[1].item = "Embed"
  /\ result.channelsCreated = 1
  /\ result.embedsSent = 0
  /\ ~returned[1].success

\* C22: provided every remote call is eventually answered, a started run terminates whatever
\* the answers are: SetupService.execute reaches its terminal state and returns a SetupResult,
\* and ServerBuilder.build returns its result or throws.
C22_Terminates ==
  /\ (engine = "execute") ~> (pc = "done" /\ returned # Undefined)
  /\ (engine = "build") ~> (pc = "thrown" \/ (pc = "done" /\ returned # Undefined))

C22_Witness ==
  /\ engine = "execute"
  /\ pc = "done"
  /\ returned # Undefined
  /\ Len(errors) >= 4
  /\ result.rolesCreated = 1

\* the channels of a list of categories, in document order
RECURSIVE C23_Channels(_)
C23_Channels(cats) ==
  IF cats = <<>> THEN <<>> ELSE Head(cats).channels \o C23_Channels(Tail(cats))

\* the categories a run does not skip: build leaves out the staff categories when
\* includeStaff is false, execute leaves out nothing
C23_Kept ==
  SelectSeq(template.categories,
            LAMBDA c : engine = "execute" \/ options.includeStaff \/ c.name # "Staff")

C23_Embeds(chans) == Len(SelectSeq(chans, LAMBDA ch : ch.embed))

C24_SecondRunDoubles ==
  /\ [][rerun => /\ roleMap' = EmptyMap
                 /\ result' = ZeroResult
                 /\ errors' = <<>>
                 /\ channelsWithEmbeds' = <<>>]_vars
  /\ [](pc = "done" =>
          /\ before.roles = runs * Created("role")
          /\ before.categories = runs * Created("category")
          /\ before.channels = runs * Created("channel")
          /\ Created("role") = result.rolesCreated
          /\ Created("category") = result.categoriesCreated
          /\ Created("channel") = result.channelsCreated)

C24_Witness ==
  /\ pc = "done"
  /\ runs = 1
  /\ before.roles + Created("role") = 4
  /\ before.categories + Created("category") = 4
  /\ before.channels + Created("channel") = 4
  /\ result.rolesCreated = 2

\* C26: in the template validator a slowmode outside 0..21600 or a user_limit outside 0..99
\* only adds to the warning count: once validate.js has exited over a document whose only
\* violations are range violations, the error count is zero, every range violation was
\* counted as one warning, and the exit status is 0 (the document is reported valid).
RECURSIVE C26_OutOfRange(_)
C26_OutOfRange(chs) ==
  IF chs = <<>> THEN 0
  ELSE (IF Head(chs).slowmode # Undefined /\ Head(chs).slowmode[1] \notin 0..21600
        THEN 1 ELSE 0)
         + (IF Head(chs).user_limit # Undefined /\ Head(chs).user_limit[1] \notin 0..99
            THEN 1 ELSE 0)
         + C26_OutOfRange(Tail(chs))

C26_Channels(doc) ==
  IF doc.categories = Undefined \/ doc.categories = <<<<>>>> THEN <<>>
  ELSE doc.categories[1][1].channels

C26_OnlyRangeViolations(doc) ==
  /\ doc.id # "" /\ doc.name # "" /\ doc.description # ""
  /\ doc.categories # Undefined /\ doc.roles # Undefined
  /\ \A k \in 1..Len(doc.categories[1]) :
       /\ doc.categories[1][k].name # ""
       /\ \A c \in 1..Len(doc.categories[1][k].channels) :
            /\ doc.categories[1][k].channels[c].name # ""
            /\ doc.categories[1][k].channels[c].type \in VALID_CHANNEL_TYPES
  /\ \A k \in 1..Len(doc.roles[1]) :
       /\ doc.roles[1][k].name # ""
       /\ colorRegex(doc.roles[1][k].color)
  /\ C26_OutOfRange(C26_Channels(doc)) > 0

C26_RangeViolationsOnlyWarn ==
  (pc = "exited" /\ C26_OnlyRangeViolations(template))
    => /\ validation.errors = 0
       /\ validation.warnings = C26_OutOfRange(C26_Channels(template))
       /\ validation.exit = <<0>>

C26_Witness ==
  /\ pc = "exited"
  /\ C26_OnlyRangeViolations(template)
  /\ C26_Channels(template)[1].slowmode = <<30000>>
  /\ C26_Channels(template)[1].user_limit = <<150>>
  /\ validation = [errors |-> 0, warnings |-> 2, exit |-> <<0>>]

\* C27: a document whose category list or role list is present and empty is rejected by
\* the validator (exit status 1) and by the bot's loadTemplate (null).
C27_EmptyListsRejected ==
  ((template.categories # Undefined /\ Len(template.categories[1]) = 0)
     \/ (template.roles # Undefined /\ Len(template.roles[1]) = 0))
    => /\ pc = "exited" => validation.exit = <<1>>
       /\ loaded # "template"

\* C25: for a template with a blocking structural error (a channel without name or kind, a
\* channel kind outside the five valid ones, a role color that is not '#' and six hex
\* digits) neither build nor execute issues a mutating call: none is in flight and nothing
\* is created on the target.
C25_StructuralError(t) ==
  \/ \E k \in 1..Len(t.categories) : \E c \in 1..Len(t.categories[k].channels) :
       \/ t.categories[k].channels[c].name = ""
       \/ t.categories[k].channels[c].type \notin VALID_CHANNEL_TYPES
  \/ \E k \in 1..Len(t.roles) : ~colorRegex(t.roles[k].color)

C25_StructuralErrorBlocksRun ==
  C25_StructuralError(template)
    => /\ \A att \in inflight : att.kind \notin MutatingKinds
       /\ remote = {}
       /\ before = NoResources

\* C28: in ServerBuilder.preflight the template checks give their verdict before any
\* request is sent: as long as the run has not passed the template checks, no request to
\* the remote system is in flight.
C28_VerdictBeforeAnyRequest ==
  (engine = "build"
     /\ pc \in {"preflight_guild", "preflight_member", "preflight_template"})
    => inflight = {}

\* C29: resolvePermissions never raises an error, and what it returns is the union of the
\* bits of the names of the list that are in the vocabulary, whatever their order and
\* however often they are repeated; names outside the vocabulary add nothing.
C29_Vocabulary == IF engine = "build" THEN PermissionFlags ELSE PermMap

C29_LenientUnionOfBits ==
  /\ pc # "TypeError"
  /\ pc = "resolved"
       => acc = { C29_Vocabulary[permissions[k]] :
                    k \in {n \in 1..Len(permissions) : permissions[n] \in DOMAIN C29_Vocabulary} }

\* C30: every embed post targets the identifier of a channel that a channel-creation call
\* of the same run has returned: each queued identifier, the target of an embed post in
\* flight and the channel of every message posted is a channel created in this run, so a
\* channel whose creation failed (or whose category failed) never gets an embed post.
C30_EmbedTargetsCreatedChannel ==
  /\ \A n \in 1..Len(channelsWithEmbeds) :
       /\ channelsWithEmbeds[n].channelId \in remote
       /\ channelsWithEmbeds[n].channelId =
            ChannelId(channelsWithEmbeds[n].cat, channelsWithEmbeds[n].chan)
  /\ \A att \in inflight : att.kind = "embed" => ChannelId(att.a, att.b) \in remote
  /\ \A id \in remote : id.t = "message" => ChannelId(id.a, id.b) \in remote

C30_Witness ==
  /\ \E att \in inflight : att.kind = "embed"
  /\ \E n \in 1..Len(errors) : errors[n].item = "Channel"

\* C31: within one phase the progress callback of execute is called with current indices
\* that never decrease and never exceed the reported total, and the total stays the same
\* for the phase.
C31_ProgressWithinPhase ==
  /\ [](progress.current <= progress.total)
  /\ [][(progress' # progress /\ progress'.phase = progress.phase)
          => /\ progress'.current >= progress.current
             /\ progress'.total = progress.total]_vars

C31_Witness ==
  /\ engine = "execute"
  /\ progress = onProgress("channels", 2, 2)
  /\ \E n \in 1..Len(errors) : errors[n].item = "Category"

\* C32: no operation of the engine changes the loaded template: across every step of
\* preflight, build, dryRun and execute the role list, the category list and the channel
\* lists keep their elements and their order.
C32_TemplateUnchanged ==
  [][/\ template'.roles = template.roles
     /\ template'.categories = template.categories]_vars

\* C33: whenever preflight returns ok the capability of the credential was verified: when
\* the bot-member step ends with no error collected and the template checks will pass, so
\* that preflight returns ok, the member record was read and its permissions hold
\* MANAGE_CHANNELS, MANAGE_ROLES and MANAGE_GUILD together, or ADMINISTRATOR.
C33_OkMeansVerified ==
  [][\A resp \in Responses, perms \in MemberPerms :
       (/\ preflight_getBotMember_return(resp, perms)
        /\ pc' = "preflight_template"
        /\ pfErrors' = {}
        /\ templateErrors = {})
         => /\ request(resp, retries).act = "return"
            /\ hasRequiredPerms(perms)]_vars

\* C34: apiPost makes at most two attempts per call. It sleeps and retries only after a
\* 429 on its first attempt, and posts the retry once the wait has passed; it returns only
\* on success; every other failure of the first attempt, and any failure of the retry
\* (a 429 included), is raised to the caller with no attempt left in flight.
C34_AtMostTwoAttempts ==
  /\ [](engine = "execute" => attempts <= 2)
  /\ []((engine = "execute" /\ pc = "sleeping") => (attempts = 1 /\ answer.status = 429))
  /\ [][(engine = "execute" /\ attempts >= 1 /\ attempts' > attempts)
          => (attempts = 1 /\ answer.status = 429 /\ elapsed >= wait(answer))]_vars
  /\ []((engine = "execute" /\ pc = "returned") => answer.status = 200)
  /\ []((engine = "execute" /\ pc = "thrown")
          => /\ answer.status # 200
             /\ answer.status = 429 => attempts = 2
             /\ raised # NoError
             /\ inflight = {})

C34_Witness ==
  /\ engine = "execute"
  /\ pc = "thrown"
  /\ attempts = 2
  /\ answer.status = 429
  /\ raised # NoError

\* C35: every allow entry of the overwrites sent with a channel-creation call targets the
\* identifier of a role that satisfies the staff predicate or carries the name of the
\* channel's role_locked rule, also when two roles of the template share a name.
C35_AllowTargetsStaffOrLocked ==
  \A att \in inflight :
    att.kind = "channel" =>
      \A m \in 1..Len(overwrites) :
        overwrites[m].allow # {} =>
          \E k \in 1..Len(template.roles) :
            /\ overwrites[m].id = RoleId(k)
            /\ \/ isStaffRole(template.roles[k])
               \/ template.roles[k].name = ChannelOf(att).permissions.role_locked

\* C36: while a run started by handleSetup executes for guild G, G is in activeSetups, and
\* a key leaves activeSetups only by a step of an invocation that has inserted it (one that
\* is past its confirmation), never by one that was cancelled, timed out or failed before.
C36_KeyHeldWhileExecuting ==
  /\ [](\A k \in Invs :
          (inv[k].cmd = "setup" /\ inv[k].pc = "executing") => inv[k].guild \in activeSetups)
  /\ [][\A g \in Guilds :
          (g \in activeSetups /\ g \notin activeSetups')
            => \E k \in Invs :
                 /\ inv[k].guild = g
                 /\ inv[k].pc \in {"updating", "executing", "reporting"}
                 /\ inv'[k].pc # inv[k].pc]_vars

\* C37: a run started by one command never overlaps a run started by another command on
\* the same target, and every invocation that is running execute against a target holds
\* the target's id in activeSetups.
C37_NoOverlapAcrossCommands ==
  \A g \in Guilds :
    /\ \A k \in Executing({"setup", "ai", "clone"}, g) : g \in activeSetups
    /\ \A k, l \in Executing({"setup", "ai", "clone"}, g) : inv[k].cmd = inv[l].cmd

\* the number of error entries of one kind in a returned SetupResult
C38_Errors(item) ==
  Cardinality({k \in 1..Len(returned[1].errors) : returned[1].errors[k].item = item})

\* the channels of the categories created in the run, and the created channels with an embed
C38_ChannelsOfCreated ==
  {c \in {[a |-> x, b |-> y] : x \in 1..MaxCats, y \in 1..MaxChans} :
     /\ c.a <= Len(template.categories)
     /\ c.b <= Len(template.categories[c.a].channels)
     /\ CategoryId(c.a) \in remote}

C38_CreatedWithEmbed ==
  {c \in C38_ChannelsOfCreated :
     ChannelId(c.a, c.b) \in remote /\ template.categories[c.a].channels[c.b].embed}

\* C38: in the result execute returns, created + errors equals the number of items attempted
\* for each kind: all roles, all categories, the channels of the created categories, and the
\* created channels that carry an embed; hence embeds <= channels and no counter exceeds the
\* template's totals.
C38_EveryItemAccountedOnce ==
  (engine = "execute" /\ returned # Undefined) =>
    LET stats == returned[1].stats IN
    /\ stats.rolesCreated + C38_Errors("Role") = Len(template.roles)
    /\ stats.categoriesCreated + C38_Errors("Category") = Len(template.categories)
    /\ stats.channelsCreated + C38_Errors("Channel") = Cardinality(C38_ChannelsOfCreated)
    /\ stats.embedsSent + C38_Errors("Embed") = Cardinality(C38_CreatedWithEmbed)
    /\ stats.embedsSent <= stats.channelsCreated
    /\ stats.channelsCreated
         <= Cardinality({c \in {[a |-> x, b |-> y] : x \in 1..MaxCats, y \in 1..MaxChans} :
                           /\ c.a <= Len(template.categories)
                           /\ c.b <= Len(template.categories[c.a].channels)})

C38_Witness ==
  /\ engine = "execute" /\ returned # Undefined
  /\ C38_Errors("Role") = 1 /\ returned[1].stats.rolesCreated = 1
  /\ C38_Errors("Category") = 1 /\ returned[1].stats.categoriesCreated = 1
  /\ returned[1].stats.channelsCreated = 1
  /\ C38_Errors("Embed") = 1

\* the answer that settles the category call in flight without creating the category and
\* without aborting the run
C39_CategoryFailed(resp) ==
  /\ createCategories_return(resp) \/ execute_categories_return(resp)
  /\ inflight' = {}
  /\ CategoryId(i) \notin remote'
  /\ pc' # "thrown"

\* C39: a non-fatal failure of a category call records exactly one error, for the category,
\* and moves on to the next category without a channel call; and a channel call in flight
\* belongs to the category being processed, whose identifier (the call's parent) was returned
\* by a creation call earlier in the run.
C39_FailedCategorySkipsChannels ==
  /\ [](\A att \in inflight :
          att.kind = "channel" =>
            /\ pc = "channels" /\ att.a = i
            /\ catId = CategoryId(att.a)
            /\ catId \in remote)
  /\ [][\A resp \in Responses :
          C39_CategoryFailed(resp) =>
            /\ errors' = Append(errors,
                 [item |-> "Category", name |-> template.categories[i].name])
            /\ pc' = "categories" /\ i' = i + 1
            /\ result' = result]_vars

\* the second category's channel is being created after the first category failed
C39_Witness ==
  /\ \E att \in inflight : att.kind = "channel" /\ att.a = 2
  /\ CategoryId(1) \notin remote
  /\ Len(template.categories[1].channels) > 0
  /\ \E k \in 1..Len(errors) :
       errors[k] = [item |-> "Category", name |-> template.categories[1].name]
  /\ \A k \in 1..Len(errors) : errors[k].item # "Channel"

====
